---- MODULE Spec2Model ----
(***************************************************************************)
(* FaceMoji backend: the batch job tracker (app/services/job_manager.py,   *)
(* app/api/v1/api.py) and the frame stream coordinator                     *)
(* (app/services/websocket_manager.py) as state machines, and the calls    *)
(* of the expression classifier (app/services/face_detector.py), the       *)
(* emoji recommender (app/services/emoji_recommender.py) and the           *)
(* compositor (app/services/face_processor.py), and the request counters   *)
(* of the rate limiters (app/core/rate_limiter.py, app/services/auth.py).  *)
(*                                                                         *)
(* Reading conventions of the model:                                       *)
(*  - names the source uses without importing them (uuid in                *)
(*    job_manager.py, base64 in websocket_manager.py; job_manager,         *)
(*    asyncio, WebSocket and websocket_manager in api.py) are taken to     *)
(*    resolve to the objects they denote;                                  *)
(*  - face_processor.py imports EmojiType only, so as the repository       *)
(*    stands line 66 of process_face raises NameError (EmojiConfig) for    *)
(*    every image with a face (config_bound = FALSE below); the model      *)
(*    also covers the name being bound to the class of                     *)
(*    app/schemas/emoji.py;                                                *)
(*  - the redis client is a key-value store with per-key expiry that       *)
(*    returns the record it was given; any call on it may raise;           *)
(*  - process_frame calls face_detector.detect_faces and                   *)
(*    emoji_recommender.recommend_emojis.  EmojiRecommender defines        *)
(*    recommend_emoji only, so as the repository stands the second call    *)
(*    raises AttributeError for every frame (ok = FALSE below); the model  *)
(*    also covers the calls returning (ok = TRUE);                         *)
(*  - the checks of the endpoints before their work (validate_device_id   *)
(*    and check_rate_limit, which api.py uses without importing them from  *)
(*    app/services/auth.py, and the request.device_id that batch_process   *)
(*    reads, which BatchProcessRequest does not declare) are taken to      *)
(*    pass in the job and the stream models; check_rate_limit itself is    *)
(*    modelled with the rate limiters.                                     *)
(***************************************************************************)
EXTENDS Integers, Sequences, FiniteSets, TLC

(***************************************************************************)
(* Batch job tracker                                                       *)
(***************************************************************************)

\* job_manager.py:10  self.job_timeout = timedelta(minutes=30), in minutes
job_timeout == 30

\* api.py:219  "processing_time_ms": 100
processing_time_ms == 100

\* Bounds of the job model
MaxJobClock == 70
MaxFrames == 2

JobIds == {"j1"}
\* minutes by which the clock may advance in one step
JobTimeSteps == {10, 20}
\* A frame of a request: k > 0 is a frame {"timestamp": k, "image": k};
\* 0 is a frame that lacks the "timestamp" key.
FrameValues == {0, 1, 2}
RECURSIVE SeqsUpTo(_, _)
SeqsUpTo(S, n) ==
    IF n = 0 THEN {<<>>}
    ELSE LET shorter == SeqsUpTo(S, n - 1)
         IN  shorter \cup {Append(s, x) : s \in {t \in shorter : Len(t) = n - 1}, x \in S}
FrameLists == SeqsUpTo(FrameValues, MaxFrames)

JobStatuses == {"pending", "processing", "complete", "failed"}

VARIABLES
    jclock,     \* wall clock of the store, minutes
    store,      \* redis: job id -> NoKey or the stored record with its expiry
    issued,     \* job ids _generate_job_id has returned, with creation time and input
    wpc,        \* position of the worker task of each job
    wjob,       \* the worker's local job_data (api.py:205)
    wresults,   \* the worker's local results list (api.py:213)
    polled,     \* what the last get_job_status poll of each job returned
    jhist,      \* per job, the sequence of status values written to its record
    extcalls,   \* number of update_job_status calls made from outside the worker
    wfault,     \* per job, whether a store call of its worker has raised
    wupd,       \* the job_data the worker's update_job_status has read (job_manager.py:36)
    xupd        \* the update_job_status call from outside that is between its two commands

jobVars == <<jclock, store, issued, wpc, wjob, wresults, polled, jhist, extcalls, wfault,
             wupd, xupd>>

\* The state of the frame stream coordinator
VARIABLES
    now,                 \* time.time() as last read, in milliseconds since the start
    active_connections,  \* device id -> id of its set object, 0: no key
    device_states,       \* device id -> id of its dict object, 0: no key
    last_frame_times,    \* the keys of self.last_frame_times
    connSet,             \* set object id -> the websockets in the set
    stateDict,           \* dict object id -> the dict
    nextObj,             \* the next object id
    sock,                \* per websocket: fresh, open or closed, and its device
    hand,                \* per websocket: where its endpoint handler stands
    units,               \* per frame unit: where process_frame stands, its locals
    sent                 \* the message the last step delivered, if any

wsVars == <<now, active_connections, device_states, last_frame_times, connSet,
            stateDict, nextObj, sock, hand, units, sent>>

\* The calls of the pure parts: the expression classifier
\* (app/services/face_detector.py), the emoji recommender
\* (app/services/emoji_recommender.py) and the compositor
\* (app/services/face_processor.py)
VARIABLES
    cls_input,           \* the argument of the classifier call, if one is set up
    cls_result,          \* what the call returned, if it has been made
    rec_self,            \* the EmojiRecommender object, if one is set up
    rec_input,           \* the face_data of the recommend_emoji call
    rec_result,          \* what the call returned or raised, if it has been made
    cmp_input,           \* the arguments of the process_face call, if one is set up
    cmp_result           \* where the call stands and what it has produced

clsVars == <<cls_input, cls_result>>
recVars == <<rec_self, rec_input, rec_result>>
cmpVars == <<cmp_input, cmp_result>>
fnVars == <<clsVars, recVars, cmpVars>>

\* The request counters of the rate limiters
VARIABLES
    rl_clock,            \* wall clock of the counter store, seconds
    rl_kind,             \* whose counter the key is: a client IP's or a device's
    rl_key,              \* redis: the key rate_limit:<id>, NoCounter or its value
    rl_call,             \* per worker process: where its call stands
    rl_allowed,          \* calls that returned True in the window that is open
    rl_from,             \* when that window began
    rl_last              \* what the last call to return returned

rlVars == <<rl_clock, rl_kind, rl_key, rl_call, rl_allowed, rl_from, rl_last>>

\* No call set up, no call made
NoCall == [kind |-> "none"]
ClsIdle == cls_input = NoCall /\ cls_result = NoCall
RecIdle == rec_self = NoCall /\ rec_input = NoCall /\ rec_result = NoCall
CmpIdle == cmp_input = NoCall /\ cmp_result = NoCall
FnIdle == ClsIdle /\ RecIdle /\ CmpIdle

\* the counter store before any request: no key, no call
NoCounter == [kind |-> "none"]
RlWorkers == {"p1", "p2"}
RlIdle ==
    /\ rl_clock = 0
    /\ rl_kind = "client_ip"
    /\ rl_key = NoCounter
    /\ rl_call = [p \in RlWorkers |-> "idle"]
    /\ rl_allowed = 0
    /\ rl_from = 0
    /\ rl_last = "none"

\* Values of the job model.  None and the absent key are records of their own
\* kind, so that every value of a variable compares with every other.
NoKey == [kind |-> "none"]
NoJob == [kind |-> "none"]
NoResult == [kind |-> "none"]
ErrorResult == [kind |-> "error", error |-> "KeyError"]
FramesResult(rs) == [kind |-> "frames", frames |-> rs]

\* redis GET: the value of a key that exists and has not expired
RedisGet(st, clock, key) ==
    IF st[key].kind = "key" /\ clock < st[key].expires THEN st[key].data ELSE NoJob

\* redis SETEX key seconds value: the value replaces the key's and the key's
\* time to live starts again
RedisSetex(st, clock, key, ttl, value) ==
    [st EXCEPT ![key] = [kind |-> "key", data |-> value, expires |-> clock + ttl]]

\* redis drops the keys whose time to live has run out
RedisExpire(st, clock) ==
    [k \in DOMAIN st |->
        IF st[k].kind = "key" /\ clock >= st[k].expires THEN NoKey ELSE st[k]]

\* JobManager.create_job: the record as stored
NewJobData(frames, clock) ==
    [kind |-> "job", status |-> "pending", created_at |-> clock,
     frames |-> frames, result |-> NoResult]

create_job(st, clock, job_id, frames) ==
    RedisSetex(st, clock, job_id, job_timeout, NewJobData(frames, clock))

\* JobManager.get_job_status
get_job_status(st, clock, job_id) == RedisGet(st, clock, job_id)

\* Python truth of the result argument: None is false, the dicts passed are not
Truthy(result) == result.kind # "none"

\* JobManager.update_job_status issues two commands on the store, the GET of
\* line 36 and the SETEX of line 41; other callers and the clock of the store
\* may come in between.
\* job_manager.py:36: job_data = self.redis_client.get(...)
update_get(st, clock, job_id) == RedisGet(st, clock, job_id)

\* job_manager.py:37: if job_data
JobWritten(job_data) == job_data.kind = "job"

\* job_manager.py:38-45: on the job_data read, the status is overwritten, the
\* result too when one is given, and the record is stored with the full
\* job_timeout, whether or not the key is still there
update_setex(st, clock, job_id, job_data, status, result) ==
    RedisSetex(st, clock, job_id, job_timeout,
        [job_data EXCEPT !.status = status,
                         !.result = IF Truthy(result) THEN result ELSE @])

\* api.py:214-221: the frame loop of the worker.  A well-formed frame k gives
\* one result entry; a frame without "timestamp" raises KeyError, which ends
\* the loop.  The value is the results list and whether the loop raised.
processed_frame(frame) ==
    [timestamp |-> frame, result_image |-> frame, processing_time_ms |-> processing_time_ms]

RECURSIVE FrameLoop(_, _)
FrameLoop(frames, results) ==
    IF frames = <<>> THEN [results |-> results, raised |-> FALSE]
    ELSE IF Head(frames) = 0 THEN [results |-> results, raised |-> TRUE]
    ELSE FrameLoop(Tail(frames), Append(results, processed_frame(Head(frames))))

MaxExtCalls == 1

NoUpdate == [kind |-> "none"]

JobInit ==
    /\ jclock = 0
    /\ store = [j \in JobIds |-> NoKey]
    /\ issued = [j \in JobIds |-> [kind |-> "none"]]
    /\ wpc = [j \in JobIds |-> "none"]
    /\ wjob = [j \in JobIds |-> NoJob]
    /\ wresults = [j \in JobIds |-> <<>>]
    /\ polled = [j \in JobIds |-> "unpolled"]
    /\ jhist = [j \in JobIds |-> <<>>]
    /\ extcalls = 0
    /\ wfault = [j \in JobIds |-> FALSE]
    /\ wupd = [j \in JobIds |-> NoJob]
    /\ xupd = NoUpdate

\* the status history of a job after a SETEX of update_job_status
Logged(job_id, status) == [jhist EXCEPT ![job_id] = Append(@, status)]

\* api.py:169-200 batch_process: create_job under a fresh id, then
\* asyncio.create_task(_process_batch_job(job_id)).  When the store raises
\* the request ends in HTTP 500 and nothing was stored or dispatched.
BatchProcess(j, frames, fault) ==
    /\ UNCHANGED <<wsVars, fnVars, rlVars>>
    /\ issued[j].kind = "none"
    /\ IF fault
       THEN UNCHANGED jobVars
       ELSE /\ store' = create_job(store, jclock, j, frames)
            /\ issued' = [issued EXCEPT ![j] =
                              [kind |-> "issued", at |-> jclock, frames |-> frames]]
            /\ wpc' = [wpc EXCEPT ![j] = "start"]
            /\ jhist' = [jhist EXCEPT ![j] = <<"pending">>]
            /\ UNCHANGED <<jclock, wjob, wresults, polled, extcalls, wfault, wupd, xupd>>

\* api.py:205-207: the worker reads the job; a job that is gone ends the worker
WorkerStart(j, fault) ==
    /\ UNCHANGED <<wsVars, fnVars, rlVars>>
    /\ wpc[j] = "start"
    /\ IF fault
       THEN /\ wpc' = [wpc EXCEPT ![j] = "except"]
            /\ UNCHANGED wjob
       ELSE LET job_data == get_job_status(store, jclock, j)
            IN  /\ wjob' = [wjob EXCEPT ![j] = job_data]
                /\ wpc' = [wpc EXCEPT ![j] = IF job_data.kind = "job" THEN "mark" ELSE "done"]
    /\ UNCHANGED <<jclock, store, issued, wresults, polled, jhist, extcalls, wupd, xupd>>
    /\ wfault' = [wfault EXCEPT ![j] = @ \/ fault]

\* the GET of a call of update_job_status by the worker (job_manager.py:36-37):
\* the call goes on to its SETEX (pc set) or, for a key that is gone, returns
\* (pc after); when the GET raises the worker goes to pc raise
WorkerUpdateGet(j, fault, set, after, raise) ==
    /\ IF fault
       THEN /\ wpc' = [wpc EXCEPT ![j] = raise]
            /\ UNCHANGED wupd
       ELSE LET job_data == update_get(store, jclock, j)
            IN  IF JobWritten(job_data)
                THEN /\ wupd' = [wupd EXCEPT ![j] = job_data]
                     /\ wpc' = [wpc EXCEPT ![j] = set]
                ELSE /\ wpc' = [wpc EXCEPT ![j] = after]
                     /\ UNCHANGED wupd
    /\ UNCHANGED <<jclock, store, issued, wjob, wresults, polled, jhist, extcalls, xupd>>
    /\ wfault' = [wfault EXCEPT ![j] = @ \/ fault]

\* the SETEX of that call (job_manager.py:38-45)
WorkerUpdateSetex(j, fault, status, result, after, raise) ==
    /\ IF fault
       THEN /\ wpc' = [wpc EXCEPT ![j] = raise]
            /\ UNCHANGED <<store, jhist>>
       ELSE /\ store' = update_setex(store, jclock, j, wupd[j], status, result)
            /\ jhist' = Logged(j, status)
            /\ wpc' = [wpc EXCEPT ![j] = after]
    /\ wupd' = [wupd EXCEPT ![j] = NoJob]
    /\ UNCHANGED <<jclock, issued, wjob, wresults, polled, extcalls, xupd>>
    /\ wfault' = [wfault EXCEPT ![j] = @ \/ fault]

\* api.py:210: update_job_status(job_id, "processing")
WorkerMark(j, fault) ==
    /\ UNCHANGED <<wsVars, fnVars, rlVars>>
    /\ wpc[j] = "mark"
    /\ WorkerUpdateGet(j, fault, "mark_setex", "loop", "except")

WorkerMarkSetex(j, fault) ==
    /\ UNCHANGED <<wsVars, fnVars, rlVars>>
    /\ wpc[j] = "mark_setex"
    /\ WorkerUpdateSetex(j, fault, "processing", NoResult, "loop", "except")

\* api.py:213-221: the frame loop over the frames read at api.py:205
WorkerLoop(j) ==
    /\ UNCHANGED <<wsVars, fnVars, rlVars>>
    /\ wpc[j] = "loop"
    /\ LET r == FrameLoop(wjob[j].frames, <<>>)
       IN  /\ wresults' = [wresults EXCEPT ![j] = r.results]
           /\ wpc' = [wpc EXCEPT ![j] = IF r.raised THEN "except" ELSE "finish"]
    /\ UNCHANGED <<jclock, store, issued, wjob, polled, jhist, extcalls, wfault, wupd, xupd>>

\* api.py:224-228: update_job_status(job_id, "complete", {"frames": results})
WorkerComplete(j, fault) ==
    /\ UNCHANGED <<wsVars, fnVars, rlVars>>
    /\ wpc[j] = "finish"
    /\ WorkerUpdateGet(j, fault, "finish_setex", "done", "except")

WorkerCompleteSetex(j, fault) ==
    /\ UNCHANGED <<wsVars, fnVars, rlVars>>
    /\ wpc[j] = "finish_setex"
    /\ WorkerUpdateSetex(j, fault, "complete", FramesResult(wresults[j]), "done", "except")

\* api.py:230-235: the handler of every exception of the worker's body:
\* update_job_status(job_id, "failed", {"error": str(e)}); when this call
\* raises too the task ends with the exception
WorkerExcept(j, fault) ==
    /\ UNCHANGED <<wsVars, fnVars, rlVars>>
    /\ wpc[j] = "except"
    /\ WorkerUpdateGet(j, fault, "except_setex", "done", "raised")

WorkerExceptSetex(j, fault) ==
    /\ UNCHANGED <<wsVars, fnVars, rlVars>>
    /\ wpc[j] = "except_setex"
    /\ WorkerUpdateSetex(j, fault, "failed", ErrorResult, "done", "raised")

\* a status poll: JobManager.get_job_status(job_id) of an issued id
Poll(j) ==
    /\ UNCHANGED <<wsVars, fnVars, rlVars>>
    /\ issued[j].kind = "issued"
    /\ LET job_data == get_job_status(store, jclock, j)
       IN  polled' = [polled EXCEPT ![j] =
                         IF job_data.kind = "job" THEN job_data.status ELSE "not_found"]
    /\ UNCHANGED <<jclock, store, issued, wpc, wjob, wresults, jhist, extcalls, wfault,
                   wupd, xupd>>

\* time passes; redis drops the keys whose time to live has run out
JobTick(step) ==
    /\ UNCHANGED <<wsVars, fnVars, rlVars>>
    /\ jclock + step <= MaxJobClock
    /\ jclock' = jclock + step
    /\ store' = RedisExpire(store, jclock + step)
    /\ UNCHANGED <<issued, wpc, wjob, wresults, polled, jhist, extcalls, wfault, wupd, xupd>>

\* JobManager.update_job_status called by any holder of job_manager other
\* than the job's worker, for an id that create_job has returned or for one
\* that it has not: the GET of the call (job_manager.py:36-37)
UpdateJobStatusCall(j, status, result) ==
    /\ UNCHANGED <<wsVars, fnVars, rlVars>>
    /\ extcalls < MaxExtCalls /\ xupd = NoUpdate
    /\ extcalls' = extcalls + 1
    /\ LET job_data == update_get(store, jclock, j)
       IN  xupd' = IF JobWritten(job_data)
                   THEN [kind |-> "call", job_id |-> j, status |-> status,
                         result |-> result, job_data |-> job_data]
                   ELSE NoUpdate
    /\ UNCHANGED <<jclock, store, issued, wpc, wjob, wresults, polled, jhist, wfault, wupd>>

\* the SETEX of that call (job_manager.py:38-45)
UpdateJobStatusSetex ==
    /\ UNCHANGED <<wsVars, fnVars, rlVars>>
    /\ xupd # NoUpdate
    /\ store' = update_setex(store, jclock, xupd.job_id, xupd.job_data, xupd.status,
                             xupd.result)
    /\ jhist' = Logged(xupd.job_id, xupd.status)
    /\ xupd' = NoUpdate
    /\ UNCHANGED <<jclock, issued, wpc, wjob, wresults, polled, extcalls, wfault, wupd>>

WorkerStep ==
    \E j \in JobIds, fault \in BOOLEAN :
        \/ WorkerStart(j, fault)
        \/ WorkerMark(j, fault)
        \/ WorkerMarkSetex(j, fault)
        \/ WorkerLoop(j)
        \/ WorkerComplete(j, fault)
        \/ WorkerCompleteSetex(j, fault)
        \/ WorkerExcept(j, fault)
        \/ WorkerExceptSetex(j, fault)

JobNext ==
    \/ \E j \in JobIds, frames \in FrameLists, fault \in BOOLEAN : BatchProcess(j, frames, fault)
    \/ WorkerStep
    \/ \E j \in JobIds : Poll(j)
    \/ \E step \in JobTimeSteps : JobTick(step)

JobApiNext ==
    \/ JobNext
    \/ \E j \in JobIds, status \in JobStatuses, result \in {NoResult, ErrorResult} :
          UpdateJobStatusCall(j, status, result)
    \/ UpdateJobStatusSetex


(***************************************************************************)
(* Frame stream coordinator                                                *)
(*                                                                         *)
(* One asyncio event loop runs the endpoint handlers and the frame units;  *)
(* a task gives up the loop only at an await that suspends, which in       *)
(* WebSocketManager is connection.send_json inside broadcast.  The sets of *)
(* active_connections and the dicts of device_states are objects: a        *)
(* suspended broadcast keeps iterating the set object it started on and a  *)
(* frame unit keeps the dict object it read at its start.                  *)
(***************************************************************************)

\* websocket_manager.py:15  self.target_fps = 30
target_fps == 30

\* Bounds of the coordinator model
MaxTime == 50
MaxSessions == 2

Devices == {"d1", "d2"}
\* the devices are interchangeable: the first session is that of d1, and the
\* clock starts when it is opened
FirstDevice == "d1"
\* The websockets; each is accepted at most once.  w1 is served by the
\* endpoint of api.py:280-321 (process_frames), w2 by that of main.py:56-69.
Sockets == {"w1", "w2"}
ApiSockets == {"w1"}
Units == {"u1", "u2"}
\* milliseconds that may have passed between two readings of the clock
TimeSteps == {0, 10, 40}
Expressions == {"happy"}
SessionIds == 1..MaxSessions

NoSocket == "none"
NoMessage == [to |-> NoSocket, from |-> "none", kind |-> "none"]
NoIter == [obj |-> 0, size |-> 0, seen |-> {}, orig |-> {}]
NoDict == [last_expression |-> "None", confidence_threshold |-> "0.8",
           frame_counter |-> 0, last_frame_time |-> 0]

\* websocket_manager.py:23-28: the dict of a new session
NewDeviceState(t) ==
    [last_expression |-> "None", confidence_threshold |-> "0.8",
     frame_counter |-> 0, last_frame_time |-> t]

IdleUnit ==
    [pc |-> "idle", dev |-> "none", t0 |-> 0, accepted |-> FALSE,
     expr |-> "None", ds |-> 0, phase |-> "none", it |-> NoIter, cur |-> NoSocket,
     orphan |-> FALSE, late |-> FALSE, counted |-> FALSE]

IdleHandler == [pc |-> "none", phase |-> "none", it |-> NoIter, cur |-> NoSocket]

WsInit ==
    /\ now = 0
    /\ active_connections = [d \in Devices |-> 0]
    /\ device_states = [d \in Devices |-> 0]
    /\ last_frame_times = {}
    /\ connSet = [i \in SessionIds |-> {}]
    /\ stateDict = [i \in SessionIds |-> NoDict]
    /\ nextObj = 1
    /\ sock = [w \in Sockets |-> [st |-> "fresh", dev |-> "none", err |-> "none"]]
    /\ hand = [w \in Sockets |-> IdleHandler]
    /\ units = [u \in Units |-> IdleUnit]
    /\ sent = NoMessage

\* websocket_manager.py:58: current_time - last_frame_time < min_frame_interval,
\* with min_frame_interval = 1.0 / target_fps seconds and the times in ms
TooSoon(current_time, last_frame_time) ==
    (current_time - last_frame_time) * target_fps < 1000

\* websocket_manager.py:54-59: the admission test of process_frame.  ds is the
\* dict object device_states.get(device_id, {}) returned, 0 for the new empty
\* dict, whose missing last_frame_time reads as 0, the epoch
Dropped(ds, current_time) ==
    ds # 0 /\ TooSoon(current_time, stateDict[ds].last_frame_time)

\* websocket_manager.py:46-47: broadcast starts to iterate the set of the
\* device.  The iterator remembers the set object and its size.
IterOver(obj, first) ==
    [obj |-> obj, size |-> Cardinality(connSet[obj]), seen |-> {first},
     orig |-> connSet[obj]]

\* an iterator that does not look at the size of its set
IterUnchecked(it) == FALSE

\* next() of a set iterator: RuntimeError when the size of the set is not the
\* one it started with
IterSizeChanged(it) == Cardinality(connSet[it.obj]) # it.size

\* the websockets next() may return: members not yet visited
IterCandidates(it) == connSet[it.obj] \ it.seen

\* next() may find the iteration exhausted when every member present from the
\* start has been visited (a member added since may lie behind the iterator)
IterMayStop(it) == (connSet[it.obj] \cap it.orig) \subseteq it.seen

\* websocket_manager.py:46: if device_id in self.active_connections
HasSubscribers(d) == active_connections[d] # 0 /\ connSet[active_connections[d]] # {}


\* A dict object that neither device_states nor a frame unit on its way to
\* lines 80-83 refers to is garbage; its slot is cleared.
Referenced(i, states, us) ==
    \/ \E d \in Devices : states[d] = i
    \/ \E u \in Units : us[u].pc = "send" /\ us[u].phase = "result" /\ us[u].ds = i

Collected(dicts, states, us) ==
    [i \in SessionIds |-> IF Referenced(i, states, us) THEN dicts[i] ELSE NoDict]

\* ---- disconnect -------------------------------------------------------

\* websocket_manager.py:31-38 disconnect(websocket, device_id): the values the
\* call leaves behind.  remove raises KeyError for a websocket that is not in
\* the set; the del of a missing key raises KeyError after the lines before
\* it have taken effect.
DiscRemoves(w, d) ==
    active_connections[d] # 0 /\ w \in connSet[active_connections[d]]

DiscDestroys(w, d) ==
    DiscRemoves(w, d) /\ connSet[active_connections[d]] = {w}

DiscError(w, d) ==
    IF active_connections[d] = 0 THEN "none"
    ELSE IF ~DiscRemoves(w, d) THEN "KeyError"
    ELSE IF ~DiscDestroys(w, d) THEN "none"
    ELSE IF device_states[d] = 0 \/ d \notin last_frame_times THEN "KeyError"
    ELSE "none"

\* frame units of the device that are suspended in a send when its session is
\* destroyed are marked (orphan): they go on without a session
Orphaned(us, d) ==
    [u \in Units |->
        IF us[u].pc = "send" /\ us[u].dev = d THEN [us[u] EXCEPT !.orphan = TRUE] ELSE us[u]]

\* the effect of disconnect(w, sock[w].dev) on the manager, with us the frame
\* units as the calling step leaves them
DoDisconnect(w, us) ==
    LET d == sock[w].dev
        obj == active_connections[d]
    IN  /\ connSet' = IF DiscRemoves(w, d) THEN [connSet EXCEPT ![obj] = @ \ {w}] ELSE connSet
        /\ active_connections' =
              IF DiscDestroys(w, d) THEN [active_connections EXCEPT ![d] = 0]
              ELSE active_connections
        /\ device_states' =
              IF DiscDestroys(w, d) THEN [device_states EXCEPT ![d] = 0]
              ELSE device_states
        /\ last_frame_times' =
              IF DiscDestroys(w, d) /\ device_states[d] # 0
              THEN last_frame_times \ {d} ELSE last_frame_times
        /\ sock' = [sock EXCEPT ![w] = [st |-> "closed", dev |-> d, err |-> DiscError(w, d)]]
        /\ units' = IF DiscDestroys(w, d) THEN Orphaned(us, d) ELSE us
        /\ stateDict' = Collected(stateDict, device_states', units')

NoDisconnect(us) ==
    /\ units' = us
    /\ UNCHANGED <<connSet, active_connections, device_states, last_frame_times, sock,
                   stateDict>>

\* ---- endpoint handlers --------------------------------------------------

\* Where a handler stands after a step: at its receive, suspended in a send
\* of one of its broadcasts, or ended (disc: it has called disconnect).
\* Broadcasts of a handler, by phase:
\*   missing   websocket_manager.py:99-102  the error for a message that
\*             lacks "frame" or "frame_id"
\*   final     websocket_manager.py:115-118 the error of the handler of
\*             process_frames, which ends the receive loop
\*   endpoint  api.py:313-317               the error of the endpoint's handler
\*   echo      main.py:65                   the text received, to the device
HRecv == [pc |-> "recv", phase |-> "none", it |-> NoIter, cur |-> NoSocket, disc |-> FALSE]
HEnd == [pc |-> "ended", phase |-> "none", it |-> NoIter, cur |-> NoSocket, disc |-> TRUE]
HSend(phase, it, c) == [pc |-> "send", phase |-> phase, it |-> it, cur |-> c, disc |-> FALSE]

\* the broadcast of a phase has returned
HAfter(phase) == IF phase \in {"missing", "echo"} THEN HRecv ELSE HEnd

\* a broadcast of a phase is called: it sends to c first, or returns at once
\* when the device has no set
HBegin(phase, d, c) ==
    IF HasSubscribers(d) THEN HSend(phase, IterOver(active_connections[d], c), c)
    ELSE HAfter(phase)

\* an exception leaves the broadcast of a phase
HRaise(phase, d, c) ==
    IF phase = "missing" THEN HBegin("final", d, c)
    ELSE IF phase = "final" THEN HBegin("endpoint", d, c)
    ELSE HEnd

\* c is the websocket a broadcast begun in this step sends to first
FirstChoiceOk(d, pc, c) ==
    IF pc = "send" THEN c \in connSet[active_connections[d]] ELSE c = NoSocket

Strip(h) == [pc |-> h.pc, phase |-> h.phase, it |-> h.it, cur |-> h.cur]

\* the handler of w goes to h; an ended handler has called disconnect
\* (api.py:319-321, main.py:68-69)
HandlerGoes(w, h) ==
    /\ hand' = [hand EXCEPT ![w] = Strip(h)]
    /\ IF h.disc THEN DoDisconnect(w, units) ELSE NoDisconnect(units)

\* a membership test that finds no device
NeverInActiveConnections(d) == FALSE

\* websocket_manager.py:21: device_id in self.active_connections
InActiveConnections(d) == active_connections[d] # 0

\* a state update that leaves the counter alone
UpdatedWithoutCount(dict, rec) ==
    [dict EXCEPT !.last_frame_time = rec.t0, !.last_expression = rec.expr]

\* websocket_manager.py:18-29 connect, then the endpoint waits for a message
\* (step: the time since the clock was last read; line 27 reads it)
Connect(w, d, step) ==
    /\ UNCHANGED <<jobVars, fnVars, rlVars>>
    /\ sock[w].st = "fresh"
    /\ ~InActiveConnections(d) => nextObj <= MaxSessions
    /\ nextObj = 1 => d = FirstDevice /\ step = 0
    /\ IF ~InActiveConnections(d)
       THEN /\ now + step <= MaxTime
            /\ now' = now + step
            /\ active_connections' = [active_connections EXCEPT ![d] = nextObj]
            /\ device_states' = [device_states EXCEPT ![d] = nextObj]
            /\ stateDict' = Collected([stateDict EXCEPT ![nextObj] = NewDeviceState(now')],
                                      device_states', units)
            /\ connSet' = [connSet EXCEPT ![nextObj] = {w}]
            /\ nextObj' = nextObj + 1
       ELSE /\ step = 0
            /\ connSet' = [connSet EXCEPT ![active_connections[d]] = @ \cup {w}]
            /\ UNCHANGED <<now, active_connections, device_states, stateDict, nextObj>>
    /\ sock' = [sock EXCEPT ![w] = [st |-> "open", dev |-> d, err |-> "none"]]
    /\ hand' = [hand EXCEPT ![w] = Strip(HRecv)]
    /\ sent' = NoMessage
    /\ UNCHANGED <<last_frame_times, units>>

\* websocket_manager.py:95-103: a message without "frame" or "frame_id"
RecvMissing(w, c) ==
    /\ UNCHANGED <<jobVars, fnVars, rlVars>>
    /\ w \in ApiSockets /\ hand[w].pc = "recv"
    /\ LET h == HBegin("missing", sock[w].dev, c)
       IN  FirstChoiceOk(sock[w].dev, h.pc, c) /\ HandlerGoes(w, h)
    /\ sent' = NoMessage
    /\ UNCHANGED <<now, nextObj>>

\* websocket_manager.py:95-112: a well-formed message:
\* asyncio.create_task(self.process_frame(device_id, frame_data, frame_info))
RecvFrame(w, u) ==
    /\ UNCHANGED <<jobVars, fnVars, rlVars>>
    /\ w \in ApiSockets /\ hand[w].pc = "recv"
    /\ units[u].pc = "idle"
    /\ units' = [units EXCEPT ![u] = [IdleUnit EXCEPT !.pc = "new", !.dev = sock[w].dev]]
    /\ UNCHANGED <<now, active_connections, device_states, last_frame_times, connSet,
                   stateDict, nextObj, sock, hand>>
    /\ sent' = NoMessage

\* main.py:64-65: a text arrives and is broadcast to the device
RecvText(w, c) ==
    /\ UNCHANGED <<jobVars, fnVars, rlVars>>
    /\ w \notin ApiSockets /\ hand[w].pc = "recv"
    /\ LET h == HBegin("echo", sock[w].dev, c)
       IN  FirstChoiceOk(sock[w].dev, h.pc, c) /\ HandlerGoes(w, h)
    /\ sent' = NoMessage
    /\ UNCHANGED <<now, nextObj>>

\* the receive of the handler raises (the client has gone):
\* websocket_manager.py:114-118 for process_frames, main.py:66-69 otherwise
RecvRaises(w, c) ==
    /\ UNCHANGED <<jobVars, fnVars, rlVars>>
    /\ hand[w].pc = "recv"
    /\ LET h == IF w \in ApiSockets THEN HBegin("final", sock[w].dev, c) ELSE HEnd
       IN  FirstChoiceOk(sock[w].dev, h.pc, c) /\ HandlerGoes(w, h)
    /\ sent' = NoMessage
    /\ UNCHANGED <<now, nextObj>>

\* websocket_manager.py:47-48: the send_json a handler's broadcast waits for
\* returns (delivered) or raises; the for loop then asks the iterator for the
\* next websocket
HandlerResume(w, c, delivered) ==
    /\ UNCHANGED <<jobVars, fnVars, rlVars>>
    /\ hand[w].pc = "send"
    /\ LET d == sock[w].dev
           it == hand[w].it
           phase == hand[w].phase
       IN  /\ sent' = IF delivered
                      THEN [to |-> hand[w].cur, from |-> w, kind |-> phase]
                      ELSE NoMessage
           /\ \/ /\ ~delivered
                 /\ LET h == HRaise(phase, d, c)
                    IN  FirstChoiceOk(d, h.pc, c) /\ HandlerGoes(w, h)
              \/ /\ delivered /\ IterSizeChanged(it)
                 /\ LET h == HRaise(phase, d, c)
                    IN  FirstChoiceOk(d, h.pc, c) /\ HandlerGoes(w, h)
              \/ /\ delivered /\ ~IterSizeChanged(it)
                 /\ c \in IterCandidates(it)
                 /\ HandlerGoes(w, HSend(phase, [it EXCEPT !.seen = @ \cup {c}], c))
              \/ /\ delivered /\ ~IterSizeChanged(it) /\ IterMayStop(it)
                 /\ c = NoSocket
                 /\ HandlerGoes(w, HAfter(phase))
    /\ UNCHANGED <<now, nextObj>>

\* ---- frame units: process_frame ----------------------------------------

\* a broadcast of the unit sends to c; a unit that begins a send after its
\* session was destroyed is marked (late)
USend(rec, phase, it, c) ==
    [rec EXCEPT !.pc = "send", !.phase = phase, !.it = it, !.cur = c,
                !.late = @ \/ rec.orphan]

UEnd(rec, pc) == [rec EXCEPT !.pc = pc, !.phase = "none", !.it = NoIter, !.cur = NoSocket]

\* websocket_manager.py:85-89: the handler of process_frame broadcasts the error
UError(rec, c) ==
    IF HasSubscribers(rec.dev)
    THEN USend(rec, "error", IterOver(active_connections[rec.dev], c), c)
    ELSE UEnd(rec, "done")

\* websocket_manager.py:79-83: the broadcast of the result has returned.  The
\* new empty dict of a unit that found no session has no frame_counter:
\* line 82 raises KeyError.  Otherwise the unit writes the session fields and
\* stores its dict under the device id (counted).
UAfterResult(rec, c) ==
    IF rec.ds = 0 THEN UError(rec, c)
    ELSE [UEnd(rec, "done") EXCEPT !.counted = TRUE]

\* websocket_manager.py:68-77: the broadcast of the result is called
UResult(rec, c) ==
    IF HasSubscribers(rec.dev)
    THEN USend(rec, "result", IterOver(active_connections[rec.dev], c), c)
    ELSE UAfterResult(rec, c)

\* an exception leaves a broadcast of the unit: inside the try it is handled
\* (line 85), inside the handler it ends the task
URaise(rec, c) ==
    IF rec.phase = "result" THEN UError(rec, c) ELSE UEnd(rec, "raised")

\* a state update that writes the time only
UpdatedTimeOnly(dict, rec) == [dict EXCEPT !.last_frame_time = rec.t0]

\* websocket_manager.py:80-83 applied to the dict object of the unit
UpdatedDict(dict, rec) ==
    [dict EXCEPT !.last_frame_time = rec.t0,
                 !.last_expression = rec.expr,
                 !.frame_counter = @ + 1]

\* the locals of a task that has ended are gone
Returned(rec) == [rec EXCEPT !.t0 = 0, !.ds = 0, !.expr = "None"]

\* the unit u goes to rec; a unit that became counted in this step has run
\* lines 80-83
UnitGoes(u, rec) ==
    /\ units' = [units EXCEPT ![u] = IF rec.pc = "send" THEN rec ELSE Returned(rec)]
    /\ IF rec.counted /\ ~units[u].counted
       THEN /\ device_states' = [device_states EXCEPT ![rec.dev] = rec.ds]
            /\ stateDict' = Collected([stateDict EXCEPT ![rec.ds] = UpdatedDict(@, rec)],
                                      device_states', units')
       ELSE /\ UNCHANGED device_states
            /\ stateDict' = Collected(stateDict, device_states, units')

\* websocket_manager.py:50-77: the task of a frame starts and runs to its
\* first send.  ok: the calls of lines 62 and 65 return (with expression e);
\* otherwise one of them raises.  step: the time since the clock was last
\* read; line 57 reads it.
UnitStart(u, c, ok, e, step) ==
    /\ UNCHANGED <<jobVars, fnVars, rlVars>>
    /\ units[u].pc = "new"
    /\ now + step <= MaxTime
    /\ now' = now + step
    /\ LET d == units[u].dev
           ds == device_states[d]
       IN  IF Dropped(ds, now')
           THEN /\ c = NoSocket /\ ok /\ e = "None"
                /\ UnitGoes(u, [UEnd(units[u], "done") EXCEPT !.t0 = now', !.ds = ds])
           ELSE LET rec0 == [units[u] EXCEPT !.t0 = now', !.ds = ds, !.accepted = TRUE, !.expr = e]
                    rec == IF ok THEN UResult(rec0, c) ELSE UError(rec0, c)
                IN  /\ (ok /\ e \in Expressions) \/ (~ok /\ e = "None")
                    /\ FirstChoiceOk(d, rec.pc, c)
                    /\ UnitGoes(u, rec)
    /\ UNCHANGED <<active_connections, last_frame_times, connSet, nextObj,
                   sock, hand>>
    /\ sent' = NoMessage

\* websocket_manager.py:47-48: the send_json a unit's broadcast waits for
\* returns (delivered) or raises; the for loop then asks the iterator for the
\* next websocket
UnitResume(u, c, delivered) ==
    /\ UNCHANGED <<jobVars, fnVars, rlVars>>
    /\ units[u].pc = "send"
    /\ LET rec == units[u]
           it == rec.it
       IN  /\ sent' = IF delivered
                      THEN [to |-> rec.cur, from |-> u, kind |-> rec.phase]
                      ELSE NoMessage
           /\ \/ /\ ~delivered \/ IterSizeChanged(it)
                 /\ LET r == URaise(rec, c)
                    IN  FirstChoiceOk(rec.dev, r.pc, c) /\ UnitGoes(u, r)
              \/ /\ delivered /\ ~IterSizeChanged(it)
                 /\ c \in IterCandidates(it)
                 /\ UnitGoes(u, USend(rec, rec.phase, [it EXCEPT !.seen = @ \cup {c}], c))
              \/ /\ delivered /\ ~IterSizeChanged(it) /\ IterMayStop(it)
                 /\ LET r == IF rec.phase = "result" THEN UAfterResult(rec, c)
                             ELSE UEnd(rec, "done")
                    IN  FirstChoiceOk(rec.dev, r.pc, c) /\ UnitGoes(u, r)
    /\ UNCHANGED <<now, active_connections, last_frame_times, connSet, nextObj, sock, hand>>

Choices == Sockets \cup {NoSocket}

WsNext ==
    \/ \E w \in Sockets, d \in Devices, step \in TimeSteps : Connect(w, d, step)
    \/ \E w \in Sockets, c \in Choices : RecvMissing(w, c)
    \/ \E w \in Sockets, u \in Units : RecvFrame(w, u)
    \/ \E w \in Sockets, c \in Choices : RecvText(w, c)
    \/ \E w \in Sockets, c \in Choices : RecvRaises(w, c)
    \/ \E w \in Sockets, c \in Choices, delivered \in BOOLEAN : HandlerResume(w, c, delivered)
    \/ \E u \in Units, c \in Choices, ok \in BOOLEAN, e \in Expressions \cup {"None"},
         step \in TimeSteps :
          UnitStart(u, c, ok, e, step)
    \/ \E u \in Units, c \in Choices, delivered \in BOOLEAN : UnitResume(u, c, delivered)

vars == <<jobVars, wsVars, fnVars, rlVars>>

Init == JobInit /\ WsInit /\ FnIdle /\ RlIdle

SpecJobs == Init /\ [][JobNext]_vars
SpecJobsApi == Init /\ [][JobApiNext]_vars
SpecWs == Init /\ [][WsNext]_vars

(***************************************************************************)
(* Claims about the batch job tracker                                      *)
(***************************************************************************)

JobLive(j) == get_job_status(store, jclock, j).kind = "job"
JobStatus(j) == get_job_status(store, jclock, j).status
TerminalStatuses == {"complete", "failed"}

\* C3: the status of a job only ever follows pending -> processing ->
\* complete | failed, and once the stored status of a job is complete or
\* failed no later write changes it (create_job, the worker and
\* update_job_status calls taken together).
C3_TerminalStatusIsFinal ==
    [][\A j \in JobIds :
          (JobLive(j) /\ JobStatus(j) \in TerminalStatuses /\ JobLive(j)')
              => JobStatus(j)' = JobStatus(j)]_vars

\* C8: a job created with N frames whose worker has run to its end, with no
\* store call failing and the record still within its time to live, has
\* status complete and a result of exactly N entries, one per input frame in
\* input order; before that a poll sees pending or processing.
C8_JobCompletesWithAllFrames ==
    \A j \in JobIds :
        (wpc[j] = "done" /\ ~wfault[j] /\ JobLive(j)) =>
            /\ JobStatus(j) = "complete"
            /\ LET job_data == get_job_status(store, jclock, j)
               IN  /\ job_data.result.kind = "frames"
                   /\ Len(job_data.result.frames) = Len(issued[j].frames)
                   /\ \A i \in 1..Len(issued[j].frames) :
                          job_data.result.frames[i].timestamp = issued[j].frames[i]

\* C9: the worker marks a job failed only when a read or a write of the job
\* record has failed; an exception of one frame leaves the job to end complete.
C9_FailedOnlyOnStoreFault ==
    \A j \in JobIds :
        (JobLive(j) /\ JobStatus(j) = "failed") => wfault[j]

\* C10: once job_timeout (30 minutes) has elapsed since create_job, the job
\* is not found, whatever status writes happened in between.
C10_NotFoundAfterTimeout ==
    \A j \in JobIds :
        (issued[j].kind = "issued" /\ jclock >= issued[j].at + job_timeout)
            => get_job_status(store, jclock, j) = NoJob


(***************************************************************************)
(* Claims about the frame stream coordinator                               *)
(***************************************************************************)

\* the min_frame_interval has passed between the clock readings a and b
Apart(a, b) == IF a <= b THEN ~TooSoon(b, a) ELSE ~TooSoon(a, b)

\* C1: in every reachable state a device has a device_states entry if and
\* only if it has at least one subscriber; a frame unit that ends after the
\* last disconnect does not put the entry back.
C1_SessionIffSubscribers ==
    \A d \in Devices : (device_states[d] # 0) <=> HasSubscribers(d)

\* a frame unit whose session was destroyed while it was suspended in a send
\* has ended, and its device has neither subscribers nor an entry
C1_LateUnitEnded ==
    \E u \in Units :
        /\ units[u].orphan /\ units[u].pc \in {"done", "raised"}
        /\ device_states[units[u].dev] = 0
        /\ ~HasSubscribers(units[u].dev)

\* C2: no two accepted frames of one session are less than
\* min_frame_interval apart, whatever the interleaving of their units.
C2_AcceptedFramesApart ==
    \A u, v \in Units :
        (/\ u # v
         /\ units[u].pc = "send" /\ units[v].pc = "send"
         /\ units[u].accepted /\ units[v].accepted
         /\ units[u].ds # 0 /\ units[u].ds = units[v].ds)
        => Apart(units[u].t0, units[v].t0)

\* C4: a frame unit that is in flight when the last subscriber of its device
\* disconnects begins no send to a websocket afterwards, and no exception
\* leaves its task.
C4_NoSendAfterLastDisconnect ==
    \A u \in Units : ~units[u].late /\ ~(units[u].orphan /\ units[u].pc = "raised")

\* C5: when the broadcast of a frame's result is over, every websocket that
\* was a subscriber when it began and still is one has been sent the result.
C5_ResultToEverySubscriber ==
    [][\A u \in Units :
          (/\ units[u].pc = "send" /\ units[u].phase = "result"
           /\ ~(units'[u].pc = "send" /\ units'[u].phase = "result"))
          => (connSet[units[u].it.obj] \cap units[u].it.orig) \subseteq units[u].it.seen]_vars

\* C6: after the error for a message that lacks "frame" or "frame_id" has
\* been broadcast, the receive loop of process_frames waits for the next
\* message.
C6_MissingFieldKeepsLoop ==
    [][\A w \in ApiSockets :
          (hand[w].pc = "send" /\ hand[w].phase = "missing" /\ hand[w].cur # w)
          => (hand'[w].pc = "recv" \/ (hand'[w].pc = "send" /\ hand'[w].phase = "missing"))]_vars

\* C7: the first frame submitted after a session is opened is accepted.
C7_FirstFrameAccepted ==
    \A u \in Units :
        (units[u].pc = "done" /\ \A v \in Units \ {u} : units[v].pc = "idle")
        => units[u].accepted

(***************************************************************************)
(* Expression classifier (app/services/face_detector.py)                   *)
(*                                                                         *)
(* A float is a record: a rational [kind "num", n, d] with d > 0, the      *)
(* positive infinity or the NaN that the numpy division of lines 158 and   *)
(* 162 yields for a zero divisor (numpy scalars warn, they do not raise).  *)
(* The landmark coordinates of the model are such that every np.mean and   *)
(* every division the code makes is exact in binary64, so the rational is  *)
(* the value the code holds.  Confidences are integers, in units of 0.01.  *)
(***************************************************************************)

RECURSIVE Gcd(_, _)
Gcd(a, b) == IF b = 0 THEN a ELSE Gcd(b, a % b)
AbsInt(a) == IF a < 0 THEN -a ELSE a
\* the rational n/d in lowest terms, d > 0
Num(n, d) ==
    LET g == Gcd(AbsInt(n), d)
    IN  [kind |-> "num", n |-> n \div g, d |-> d \div g]
PosInf == [kind |-> "inf", n |-> 1, d |-> 0]
NaN == [kind |-> "nan", n |-> 0, d |-> 0]

\* IEEE comparisons: every comparison with a NaN is false
FGt(x, y) ==
    CASE x.kind = "nan" \/ y.kind = "nan" -> FALSE
      [] x.kind = "inf" -> y.kind = "num"
      [] y.kind = "inf" -> FALSE
      [] OTHER -> x.n * y.d > y.n * x.d
FLt(x, y) == FGt(y, x)
FLe(x, y) ==
    CASE x.kind = "nan" \/ y.kind = "nan" -> FALSE
      [] y.kind = "inf" -> TRUE
      [] x.kind = "inf" -> FALSE
      [] OTHER -> x.n * y.d <= y.n * x.d
\* x + y and x / y of non-negative floats, as numpy scalars compute them
FAdd(x, y) ==
    CASE x.kind = "nan" \/ y.kind = "nan" -> NaN
      [] x.kind = "inf" \/ y.kind = "inf" -> PosInf
      [] OTHER -> Num(x.n * y.d + y.n * x.d, x.d * y.d)
FDiv(x, y) ==
    CASE x.kind = "nan" \/ y.kind = "nan" -> NaN
      [] x.kind = "inf" -> IF y.kind = "inf" THEN NaN ELSE PosInf
      [] y.kind = "inf" -> Num(0, 1)
      [] y.n = 0 -> IF x.n = 0 THEN NaN ELSE PosInf
      [] OTHER -> Num(x.n * y.d, x.d * y.n)
\* abs(x - y) of two rationals
FAbsDiff(x, y) == Num(AbsInt(x.n * y.d - y.n * x.d), x.d * y.d)

\* Python's max(a, b): a unless b > a
PyMax(a, b) == IF FGt(b, a) THEN b ELSE a
\* Python's s[lo:hi] and s[k] on a list held as a 1-based sequence
PySlice(s, lo, hi) == SubSeq(s, lo + 1, IF hi < Len(s) THEN hi ELSE Len(s))
PyAt(s, k) == s[k + 1]
\* s[k] raises IndexError
IndexError(s, k) == k >= Len(s)

\* np.linalg.norm of the difference of two points; the points of the model
\* are such that the squared distance is a perfect square
Sqrt(n) == CHOOSE r \in 0..n : r * r = n
norm(p, q) ==
    Num(Sqrt((p[1] - q[1]) * (p[1] - q[1]) + (p[2] - q[2]) * (p[2] - q[2])), 1)
\* np.mean(points, axis=0)[1]: the mean of the y coordinates
RECURSIVE SumY(_)
SumY(pts) == IF pts = <<>> THEN 0 ELSE Head(pts)[2] + SumY(Tail(pts))
MeanY(pts) == Num(SumY(pts), Len(pts))

\* face_detector.py:127-142
calculate_mouth_openness(mouth_points) ==
    LET top_lip == MeanY(<<PyAt(mouth_points, 13), PyAt(mouth_points, 14),
                           PyAt(mouth_points, 15)>>)
        bottom_lip == MeanY(<<PyAt(mouth_points, 19), PyAt(mouth_points, 18),
                              PyAt(mouth_points, 17)>>)
        left_corner == PyAt(mouth_points, 0)
        right_corner == PyAt(mouth_points, 6)
        mouth_width == norm(right_corner, left_corner)
        mouth_height == FAbsDiff(top_lip, bottom_lip)
    IN  FDiv(mouth_height, PyMax(mouth_width, Num(1, 1)))

\* face_detector.py:144-148
calculate_mouth_width(mouth_points) ==
    norm(PyAt(mouth_points, 6), PyAt(mouth_points, 0))

\* face_detector.py:152-158
eye_aspect_ratio(eye_points) ==
    LET A == norm(PyAt(eye_points, 1), PyAt(eye_points, 5))
        B == norm(PyAt(eye_points, 2), PyAt(eye_points, 4))
        C == norm(PyAt(eye_points, 0), PyAt(eye_points, 3))
    IN  FDiv(FAdd(A, B), Num(2 * C.n, C.d))

\* face_detector.py:150-162
calculate_eye_openness(left_eye, right_eye) ==
    LET left_ear == eye_aspect_ratio(left_eye)
        right_ear == eye_aspect_ratio(right_eye)
    IN  FDiv(FAdd(left_ear, right_ear), Num(2, 1))

\* face_detector.py:164-178
calculate_eyebrow_height(eyebrows, left_eye, right_eye) ==
    LET left_brow == MeanY(<<PyAt(eyebrows, 0), PyAt(eyebrows, 1), PyAt(eyebrows, 2)>>)
        right_brow == MeanY(<<PyAt(eyebrows, 5), PyAt(eyebrows, 6), PyAt(eyebrows, 7)>>)
        left_eye_avg == MeanY(left_eye)
        right_eye_avg == MeanY(right_eye)
        left_dist == FAbsDiff(left_brow, left_eye_avg)
        right_dist == FAbsDiff(right_brow, right_eye_avg)
    IN  FDiv(FAdd(left_dist, right_dist), Num(2, 1))

\* face_detector.py:185-188 and 206, the thresholds
mouth_open_threshold == Num(3, 10)
mouth_wide_threshold == Num(60, 1)
eye_open_threshold == Num(25, 100)
eyebrow_raised_threshold == Num(20, 1)
eye_sleepy_threshold == Num(2, 10)

Labelled(primary, confidence) == [primary |-> primary, confidence |-> confidence]

\* face_detector.py:180-210
classify_expression(mouth_height, mouth_width, eye_openness, eyebrow_height) ==
    IF FGt(mouth_height, mouth_open_threshold)
    THEN IF FGt(eye_openness, eye_open_threshold)
         THEN Labelled("surprised", 80)
         ELSE Labelled("laughing", 70)
    ELSE IF FGt(mouth_width, mouth_wide_threshold)
    THEN Labelled("happy", 85)
    ELSE IF FGt(eyebrow_height, eyebrow_raised_threshold)
    THEN IF FLt(eye_openness, eye_open_threshold)
         THEN Labelled("angry", 70)
         ELSE Labelled("surprised", 60)
    ELSE IF FLt(eye_openness, eye_sleepy_threshold)
    THEN Labelled("sleepy", 60)
    ELSE Labelled("neutral", 50)

\* The result of _analyze_expression: the label, the confidence and the
\* "features" entry, which the fallback of line 125 does not have
NoFeatures == <<>>
Analysis(primary, confidence, features) ==
    [kind |-> "analysis", primary |-> primary, confidence |-> confidence,
     features |-> features]

\* face_detector.py:88-125.  The slices of lines 96-99 never raise; the
\* indexing of the helpers raises IndexError on a slice that is too short,
\* and the handler of line 123 turns that into the fallback.
analyze_expression(landmarks) ==
    LET left_eye == PySlice(landmarks, 36, 42)
        right_eye == PySlice(landmarks, 42, 48)
        mouth == PySlice(landmarks, 48, 68)
        eyebrows == PySlice(landmarks, 17, 27)
        raised == \/ IndexError(mouth, 19)
                  \/ IndexError(left_eye, 5)
                  \/ IndexError(right_eye, 5)
                  \/ IndexError(eyebrows, 7)
    IN  IF raised
        THEN Analysis("neutral", 50, NoFeatures)
        ELSE LET mouth_height == calculate_mouth_openness(mouth)
                 mouth_width == calculate_mouth_width(mouth)
                 eye_openness == calculate_eye_openness(left_eye, right_eye)
                 eyebrow_height == calculate_eyebrow_height(eyebrows, left_eye, right_eye)
                 expression == classify_expression(mouth_height, mouth_width,
                                                   eye_openness, eyebrow_height)
             IN  Analysis(expression.primary, expression.confidence,
                          <<mouth_height, mouth_width, eye_openness, eyebrow_height>>)

\* Bound of the classifier model: the longest landmark list
MaxPoints == 69

\* The landmark lists of the model.  A face is drawn from its measures: the
\* mouth corners mw apart on one row, the lower lip mh below the upper lip,
\* each eye lw (rw) wide with its lids a above and a below the eye row (y = 100),
\* the brows b above the eye row; the mouth row is y = 150; the list is cut to
\* n points.
MouthWidths == {0, 50, 60, 61}
LipGaps == {0, 15, 16, 19}
EyeWidths == {0, 40}
LidHeights == {0, 3, 4, 5, 6}
BrowHeights == {10, 20, 21}
PointCounts == 67..MaxPoints

EyePoint(e, x0, w, a) ==
    CASE e = 0 -> <<x0, 100>>
      [] e = 3 -> <<x0 + w, 100>>
      [] e = 1 -> <<x0 + 5, 100 - a>>
      [] e = 5 -> <<x0 + 5, 100 + a>>
      [] e = 2 -> <<x0 + 10, 100 - a>>
      [] e = 4 -> <<x0 + 10, 100 + a>>
MouthPoint(m, mw, mh) ==
    CASE m = 0 -> <<40, 150>>
      [] m = 6 -> <<40 + mw, 150>>
      [] m \in {17, 18, 19} -> <<50, 150 + mh>>
      [] OTHER -> <<50, 150>>
\* the point of index i (from 0) of the face
FacePoint(i, mw, mh, lw, rw, a, b) ==
    CASE i \in 17..26 -> <<i, 100 - b>>
      [] i \in 36..41 -> EyePoint(i - 36, 20, lw, a)
      [] i \in 42..47 -> EyePoint(i - 42, 80, rw, a)
      [] i \in 48..67 -> MouthPoint(i - 48, mw, mh)
      [] OTHER -> <<i, i>>
Face(mw, mh, lw, rw, a, b, n) ==
    [k \in 1..n |-> FacePoint(k - 1, mw, mh, lw, rw, a, b)]
LandmarkLists ==
    {Face(mw, mh, lw, rw, a, b, n) :
        mw \in MouthWidths, mh \in LipGaps, lw \in EyeWidths, rw \in EyeWidths,
        a \in LidHeights, b \in BrowHeights, n \in PointCounts}

\* The feature tuples handed to _classify_expression directly
FeatureTuples ==
    {<<mh, mw, eo, bh>> :
        mh \in {Num(0, 1), Num(3, 10), Num(31, 100)},
        mw \in {Num(60, 1), Num(61, 1)},
        eo \in {Num(19, 100), Num(2, 10), Num(25, 100), Num(26, 100), PosInf, NaN},
        bh \in {Num(20, 1), Num(21, 1)}}

ClsInputs ==
    {[kind |-> "landmarks", arg |-> l] : l \in LandmarkLists}
        \cup {[kind |-> "features", arg |-> t] : t \in FeatureTuples}

ClsInit ==
    /\ cls_input \in ClsInputs
    /\ cls_result = NoCall

\* a call of _analyze_expression(landmarks)
AnalyzeExpression ==
    /\ cls_input.kind = "landmarks"
    /\ cls_result = NoCall
    /\ cls_result' = analyze_expression(cls_input.arg)
    /\ UNCHANGED <<cls_input, jobVars, wsVars, recVars, cmpVars, rlVars>>

\* a call of _classify_expression(mouth_height, mouth_width, eye_openness,
\* eyebrow_height)
ClassifyExpression ==
    /\ cls_input.kind = "features"
    /\ cls_result = NoCall
    /\ LET t == cls_input.arg
           expression == classify_expression(t[1], t[2], t[3], t[4])
       IN  cls_result' = Analysis(expression.primary, expression.confidence, NoFeatures)
    /\ UNCHANGED <<cls_input, jobVars, wsVars, recVars, cmpVars, rlVars>>

ClsNext == AnalyzeExpression \/ ClassifyExpression

InitClassify == JobInit /\ WsInit /\ ClsInit /\ RecIdle /\ CmpIdle /\ RlIdle
SpecClassify == InitClassify /\ [][ClsNext]_vars

(***************************************************************************)
(* Claims about the expression classifier                                  *)
(***************************************************************************)

\* the feature tuple the classification of this state was made from
ClassifiedTuple ==
    IF cls_input.kind = "features" THEN cls_input.arg ELSE cls_result.features
Classified ==
    /\ cls_result # NoCall
    /\ cls_input.kind = "landmarks" => cls_result.features # NoFeatures

\* the ordered rule list of the specification, the number of its first
\* matching rule
FirstRule(t) ==
    CASE FGt(t[1], mouth_open_threshold) /\ FGt(t[3], eye_open_threshold) -> 1
      [] FGt(t[1], mouth_open_threshold) /\ FLe(t[3], eye_open_threshold) -> 2
      [] OTHER ->
           IF FGt(t[2], mouth_wide_threshold) THEN 3
           ELSE IF FGt(t[4], eyebrow_raised_threshold)
                   /\ FLt(t[3], eye_open_threshold) THEN 4
           ELSE IF FGt(t[4], eyebrow_raised_threshold) THEN 5
           ELSE IF FLt(t[3], eye_sleepy_threshold) THEN 6
           ELSE 7
RuleLabels ==
    <<"surprised", "laughing", "happy", "angry", "surprised", "sleepy", "neutral">>
RuleConfidences == <<80, 70, 85, 70, 60, 60, 50>>
ExpressionLabels == {"happy", "surprised", "laughing", "angry", "sleepy", "neutral"}

\* C11: for every feature tuple, _classify_expression returns the label of
\* the first matching rule of the ordered list (openness > 0.3 and eye > 0.25:
\* surprised; openness > 0.3 and eye <= 0.25: laughing; else width > 60: happy;
\* else brow > 20 and eye < 0.25: angry; else brow > 20: surprised; else
\* eye < 0.2: sleepy; else neutral), the label is one of the six labels, and
\* the confidence is the constant of the branch, within [0.5, 0.85].
C11_FirstMatchingRule ==
    Classified =>
        /\ cls_result.primary = RuleLabels[FirstRule(ClassifiedTuple)]
        /\ cls_result.primary \in ExpressionLabels
        /\ cls_result.confidence = RuleConfidences[FirstRule(ClassifiedTuple)]
        /\ cls_result.confidence \in 50..85

\* The same on the tuples whose eye openness is a number or an infinity
C11_FirstMatchingRuleOfNumbers ==
    (Classified /\ ClassifiedTuple[3] # NaN) =>
        /\ cls_result.primary = RuleLabels[FirstRule(ClassifiedTuple)]
        /\ cls_result.confidence = RuleConfidences[FirstRule(ClassifiedTuple)]
\* Label and confidence range on every tuple
C11_LabelAndConfidenceRange ==
    Classified =>
        /\ cls_result.primary \in ExpressionLabels
        /\ cls_result.confidence \in {50, 60, 70, 80, 85}

WrongPointCount == Len(cls_input.arg) # 68
ZeroWidthMouth ==
    /\ Len(cls_input.arg) >= 68
    /\ PyAt(cls_input.arg, 48) = PyAt(cls_input.arg, 54)
ZeroWidthEye ==
    /\ Len(cls_input.arg) >= 68
    /\ \/ PyAt(cls_input.arg, 36) = PyAt(cls_input.arg, 39)
       \/ PyAt(cls_input.arg, 42) = PyAt(cls_input.arg, 45)

\* C17: _analyze_expression never raises, and on a landmark list with the
\* wrong number of points or with degenerate geometry (zero-width mouth,
\* zero-width eye) it returns primary "neutral" with confidence 0.5.
C17_DegenerateIsNeutral ==
    (/\ cls_input.kind = "landmarks"
     /\ cls_result # NoCall
     /\ WrongPointCount \/ ZeroWidthMouth \/ ZeroWidthEye)
        => (cls_result.primary = "neutral" /\ cls_result.confidence = 50)

(***************************************************************************)
(* Emoji recommender (app/services/emoji_recommender.py)                   *)
(*                                                                         *)
(* Confidences and thresholds are integers in units of 0.01, scores are    *)
(* integers in units of 0.001, so that confidence * 1.2 is the integer     *)
(* 12 * c.  An entry of the catalog is its id, its expression tag and its  *)
(* confidence_threshold; the catalog is a dict, a sequence of entries of   *)
(* distinct ids in insertion order.                                        *)
(***************************************************************************)

Emoji(id, expression, threshold) ==
    [id |-> id, expression |-> expression, confidence_threshold |-> threshold]

\* emoji_recommender.py:17-102, the catalog _load_emoji_database returns
LoadedCatalog ==
    <<Emoji("happy_001", "happy", 70), Emoji("happy_002", "happy", 80),
      Emoji("surprised_001", "surprised", 60), Emoji("laughing_001", "laughing", 70),
      Emoji("angry_001", "angry", 60), Emoji("neutral_001", "neutral", 40),
      Emoji("sleepy_001", "sleepy", 50)>>

\* self.emoji_database[emoji_id] raises KeyError
KeyMissing(db, id) == \A k \in 1..Len(db) : db[k].id # id
DbGet(db, id) == db[CHOOSE k \in 1..Len(db) : db[k].id = id]

\* emoji_recommender.py:104-112: expression -> the ids tagged with it, in
\* the order of the catalog; the keys are the tags that occur
RECURSIVE MappingsFrom(_, _)
MappingsFrom(db, mappings) ==
    IF db = <<>> THEN mappings
    ELSE LET emoji_data == Head(db)
             expression == emoji_data.expression
             started == IF expression \notin DOMAIN mappings
                        THEN mappings @@ (expression :> <<>>)
                        ELSE mappings
         IN  MappingsFrom(Tail(db),
                          [started EXCEPT ![expression] = Append(@, emoji_data.id)])
create_expression_mappings(db) == MappingsFrom(db, <<>>)

\* dict.get(key, default) on the mappings
MappingsGet(mappings, key, default) ==
    IF key \in DOMAIN mappings THEN mappings[key] ELSE default

\* emoji_recommender.py:9-12
EmojiRecommender(db) ==
    [emoji_database |-> db, expression_mappings |-> create_expression_mappings(db)]

\* The entries of the "expression" dict of face_data
NoEntry == [kind |-> "missing", v |-> 0]
Number(c) == [kind |-> "num", v |-> c]
NotANumber == [kind |-> "str", v |-> 0]
\* The "expression" dict with its two entries, the empty dict that
\* face_data.get("expression", {}) returns for a missing key, and None
ExpressionDict(primary, confidence) ==
    [kind |-> "dict", primary |-> primary, confidence |-> confidence]
EmptyDict == ExpressionDict("", NoEntry)
MissingExpression == [kind |-> "missing", primary |-> "", confidence |-> NoEntry]
NoneExpression == [kind |-> "none", primary |-> "", confidence |-> NoEntry]
FaceData(expression) == [kind |-> "dict", expression |-> expression]
NoneFaceData == [kind |-> "NoneType", expression |-> NoneExpression]

\* expression.get("confidence", 0.5)
GetConfidence(expression) ==
    IF expression.confidence = NoEntry THEN Number(50) ELSE expression.confidence
\* expression.get("primary", "neutral"); the label "" stands for no entry
GetPrimary(expression) ==
    IF expression.primary = "" THEN "neutral" ELSE expression.primary

\* emoji_recommender.py:180-195, for a confidence that is a number
MinInt(a, b) == IF a < b THEN a ELSE b
\* the score without the cap of line 195
UncappedScore(expression, emoji_data) ==
    IF expression.confidence.v >= emoji_data.confidence_threshold
    THEN 12 * expression.confidence.v
    ELSE 10 * expression.confidence.v
calculate_emoji_score(expression, emoji_data) ==
    LET base_score == GetConfidence(expression).v
        threshold == emoji_data.confidence_threshold
    IN  IF base_score >= threshold
        THEN MinInt(12 * base_score, 1000)
        ELSE MinInt(10 * base_score, 1000)

\* list.sort(key=lambda x: x[1], reverse=True): descending by score, and
\* stable: elements of equal score keep their order
\* an insertion that puts an element before the elements of its score
RECURSIVE InsertBeforeEqual(_, _)
InsertBeforeEqual(sorted, x) ==
    IF sorted = <<>> THEN <<x>>
    ELSE IF Head(sorted).score > x.score
         THEN <<Head(sorted)>> \o InsertBeforeEqual(Tail(sorted), x)
         ELSE <<x>> \o sorted
RECURSIVE InsertDescending(_, _)
InsertDescending(sorted, x) ==
    IF sorted = <<>> THEN <<x>>
    ELSE IF Head(sorted).score >= x.score
         THEN <<Head(sorted)>> \o InsertDescending(Tail(sorted), x)
         ELSE <<x>> \o sorted
RECURSIVE SortDescending(_)
SortDescending(scored) ==
    IF scored = <<>> THEN <<>>
    ELSE InsertDescending(SortDescending(SubSeq(scored, 1, Len(scored) - 1)),
                          scored[Len(scored)])

\* The results of a call
Raised(error) == [kind |-> "raised", error |-> error]
Recommendation(primary, alternatives, expression_matched, confidence) ==
    [kind |-> "recommendation", primary |-> primary, alternatives |-> alternatives,
     expression_matched |-> expression_matched, confidence |-> confidence]

\* emoji_recommender.py:197-211
get_default_recommendation(self) ==
    IF KeyMissing(self.emoji_database, "neutral_001")
    THEN Raised("KeyError")
    ELSE Recommendation([id |-> "neutral_001", score |-> 500], <<>>, "neutral", 50)

\* the candidates without the lookup of the label
NeutralCandidates(self, primary_expression) ==
    MappingsGet(self.expression_mappings, "neutral", <<"neutral_001">>)
\* emoji_recommender.py:130-134
Candidates(self, primary_expression) ==
    LET candidates == MappingsGet(self.expression_mappings, primary_expression, <<>>)
    IN  IF candidates = <<>>
        THEN MappingsGet(self.expression_mappings, "neutral", <<"neutral_001">>)
        ELSE candidates

\* emoji_recommender.py:137-146
ScoredCandidates(self, expression, candidates) ==
    SortDescending([k \in 1..Len(candidates) |->
        [id |-> candidates[k],
         score |-> calculate_emoji_score(expression,
                                         DbGet(self.emoji_database, candidates[k]))]])

\* scored_candidates[0:4]
FirstFour(scored_candidates) ==
    SubSeq(scored_candidates, 1, MinInt(4, Len(scored_candidates)))
\* scored_candidates[1:4]
Alternatives(scored_candidates) ==
    SubSeq(scored_candidates, 2, MinInt(4, Len(scored_candidates)))

\* The "expression" dict of line 125
GetExpression(face_data) ==
    IF face_data.expression.kind = "missing" THEN EmptyDict ELSE face_data.expression

\* emoji_recommender.py:124-173, the try block raises: face_data or its
\* "expression" is not a dict (AttributeError, lines 125-126), a candidate is
\* not a key of the catalog (KeyError, line 139), the confidence does not
\* compare with the threshold (TypeError, line 187)
TryRaises(self, face_data) ==
    \/ face_data.kind # "dict"
    \/ face_data.expression.kind = "none"
    \/ LET candidates == Candidates(self, GetPrimary(GetExpression(face_data)))
       IN  \E k \in 1..Len(candidates) : KeyMissing(self.emoji_database, candidates[k])
    \/ GetConfidence(GetExpression(face_data)).kind # "num"

\* emoji_recommender.py:114-178; the handler of line 175 answers every
\* exception of the try block with the default recommendation
recommend_emoji(self, face_data) ==
    IF TryRaises(self, face_data)
    THEN get_default_recommendation(self)
    ELSE LET expression == GetExpression(face_data)
             primary_expression == GetPrimary(expression)
             confidence == GetConfidence(expression)
             candidates == Candidates(self, primary_expression)
             scored_candidates == ScoredCandidates(self, expression, candidates)
         IN  Recommendation(scored_candidates[1], Alternatives(scored_candidates),
                            primary_expression, confidence.v)

\* Bound of the recommender model: the longest catalog drawn from the pool
MaxCatalog == 5

\* The catalogs of the model: the loaded one, and every catalog of at most
\* MaxCatalog entries of the pool, in the order of the pool (the empty
\* catalog and the catalogs without a neutral entry among them)
CatalogPool ==
    <<Emoji("happy_003", "happy", 60), Emoji("happy_001", "happy", 70),
      Emoji("happy_002", "happy", 80), Emoji("neutral_001", "neutral", 40),
      Emoji("happy_005", "happy", 70), Emoji("happy_004", "happy", 90),
      Emoji("neutral_002", "neutral", 50)>>
RECURSIVE SubCatalog(_, _)
SubCatalog(pool, ids) ==
    IF pool = <<>> THEN <<>>
    ELSE (IF Head(pool).id \in ids THEN <<Head(pool)>> ELSE <<>>)
             \o SubCatalog(Tail(pool), ids)
Catalogs ==
    {LoadedCatalog} \cup
    {SubCatalog(CatalogPool, ids) :
        ids \in {s \in SUBSET {CatalogPool[k].id : k \in 1..Len(CatalogPool)} :
                    Cardinality(s) <= MaxCatalog}}

\* The face_data of the model
PrimaryEntries == {"happy", "surprised", "laughing", "angry", "sleepy", "neutral", "grumpy", ""}
ConfidenceEntries ==
    {Number(c) : c \in {0, 40, 50, 69, 70, 75, 85, 100, 120}} \cup {NoEntry, NotANumber}
FaceDatas ==
    {FaceData(ExpressionDict(p, c)) : p \in PrimaryEntries, c \in ConfidenceEntries}
        \cup {FaceData(MissingExpression), FaceData(NoneExpression), NoneFaceData}

RecInit ==
    /\ rec_self \in {EmojiRecommender(db) : db \in Catalogs}
    /\ rec_input \in FaceDatas
    /\ rec_result = NoCall
RecLoadedInit ==
    /\ rec_self = EmojiRecommender(LoadedCatalog)
    /\ rec_input \in FaceDatas
    /\ rec_result = NoCall

\* a call of recommend_emoji(face_data)
RecommendEmoji ==
    /\ rec_self # NoCall
    /\ rec_result = NoCall
    /\ rec_result' = recommend_emoji(rec_self, rec_input)
    /\ UNCHANGED <<rec_self, rec_input, jobVars, wsVars, clsVars, cmpVars, rlVars>>

RecNext == RecommendEmoji

InitRecommend == JobInit /\ WsInit /\ ClsIdle /\ RecInit /\ CmpIdle /\ RlIdle
InitRecommendLoaded == JobInit /\ WsInit /\ ClsIdle /\ RecLoadedInit /\ CmpIdle /\ RlIdle
\* any catalog
SpecRecommend == InitRecommend /\ [][RecNext]_vars
\* the catalog the repository loads
SpecRecommendLoaded == InitRecommendLoaded /\ [][RecNext]_vars

(***************************************************************************)
(* Claims about the emoji recommender                                      *)
(***************************************************************************)

\* the call has been made and its try block ran to its return
Ranked == rec_result # NoCall /\ ~TryRaises(rec_self, rec_input)
\* the primary and the alternatives of the result, in order
Items == <<rec_result.primary>> \o rec_result.alternatives
GivenConfidence == GetConfidence(GetExpression(rec_input)).v
GivenLabel == GetPrimary(GetExpression(rec_input))
Threshold(id) == DbGet(rec_self.emoji_database, id).confidence_threshold
\* position of an id in the catalog
CatalogIndex(id) == CHOOSE k \in 1..Len(rec_self.emoji_database) :
                        rec_self.emoji_database[k].id = id
\* the ids of the catalog tagged with a label
Tagged(label) ==
    {rec_self.emoji_database[k].id : k \in
        {i \in 1..Len(rec_self.emoji_database) :
            rec_self.emoji_database[i].expression = label}}
\* the score the specification gives a candidate
SpecScore(id) ==
    IF GivenConfidence >= Threshold(id)
    THEN MinInt(12 * GivenConfidence, 1000)
    ELSE MinInt(10 * GivenConfidence, 1000)

\* C12: the score of a candidate is min(c * 1.2, 1.0) when c >= the
\* candidate's confidence_threshold and min(c, 1.0) otherwise; for c in
\* [0, 1] the score is <= 1.0 and >= c.
C12_ScoreFormula ==
    Ranked =>
        \A k \in 1..Len(Items) :
            /\ Items[k].score = SpecScore(Items[k].id)
            /\ GivenConfidence \in 0..100 =>
                  (Items[k].score <= 1000 /\ Items[k].score >= 10 * GivenConfidence)
\* a boosted score that the cap cut to 1.0 beside a score that was not boosted
C12_CappedAndPlain ==
    /\ Ranked
    /\ GivenConfidence = 85
    /\ rec_result.primary.score = 1000
    /\ \E k \in 1..Len(rec_result.alternatives) : rec_result.alternatives[k].score = 850

\* a candidate ranks before another: higher score, or equal score and
\* earlier in the catalog
Before(x, y) ==
    \/ SpecScore(x) > SpecScore(y)
    \/ SpecScore(x) = SpecScore(y) /\ CatalogIndex(x) < CatalogIndex(y)
CandidateSet == IF Tagged(GivenLabel) # {} THEN Tagged(GivenLabel) ELSE Tagged("neutral")

\* C13: the candidates are ordered by score descending, candidates of equal
\* score in catalog insertion order, so the result is determined by the
\* expression and the catalog; for "happy" with confidence 0.85 on the loaded
\* catalog both happy entries score 1.0, happy_001 is the primary and
\* happy_002 the first alternative.
C13_StableDescendingOrder ==
    Ranked =>
        /\ \A i, j \in 1..Len(Items) : i < j => Before(Items[i].id, Items[j].id)
        /\ \A x \in CandidateSet :
              \/ \E k \in 1..Len(Items) : Items[k].id = x
              \/ Len(Items) = 4 /\ Before(Items[4].id, x)
        /\ (/\ rec_self.emoji_database = LoadedCatalog
            /\ GivenLabel = "happy"
            /\ GivenConfidence = 85)
              => /\ rec_result.primary = [id |-> "happy_001", score |-> 1000]
                 /\ rec_result.alternatives = <<[id |-> "happy_002", score |-> 1000]>>
\* the example of the claim
C13_HappyTie ==
    /\ Ranked
    /\ rec_self.emoji_database = LoadedCatalog
    /\ GivenLabel = "happy"
    /\ GivenConfidence = 85
    /\ rec_result.primary.id = "happy_001"

\* the ranking of the call, as the code computes it
Ranking == ScoredCandidates(rec_self, GetExpression(rec_input), Candidates(rec_self, GivenLabel))

\* C14: the primary is a candidate of maximal score, the alternatives are the
\* next candidates of the ranking in order, at most 3, their scores are
\* non-increasing and none exceeds the primary's, and the primary is not
\* among the alternatives.
C14_PrimaryAndAlternatives ==
    Ranked =>
        LET alts == rec_result.alternatives
        IN  /\ rec_result.primary = Ranking[1]
            /\ \A k \in 1..Len(Ranking) : Ranking[k].score <= rec_result.primary.score
            /\ Len(alts) = MinInt(3, Len(Ranking) - 1)
            /\ Len(alts) <= 3
            /\ \A k \in 1..Len(alts) :
                  /\ alts[k] = Ranking[k + 1]
                  /\ alts[k].score <= rec_result.primary.score
                  /\ alts[k].id # rec_result.primary.id
            /\ \A i, j \in 1..Len(alts) : i < j => alts[i].score >= alts[j].score
\* five candidates: three alternatives, and the last of the ranking left out
C14_FifthLeftOut ==
    /\ Ranked
    /\ Len(Ranking) = 5
    /\ Len(rec_result.alternatives) = 3
    /\ Ranking[4].score > Ranking[5].score

\* C15: the candidate set is the catalog entries tagged with the primary
\* label; when no entry carries the label (unknown or missing label) it is
\* the entries tagged "neutral", which is never empty, so a primary is always
\* produced from the catalog.
C15_CandidatesByLabel ==
    /\ Tagged("neutral") # {}
    /\ rec_result # NoCall =>
          /\ rec_result.kind = "recommendation"
          /\ ~KeyMissing(rec_self.emoji_database, rec_result.primary.id)
    /\ Ranked =>
          LET candidates == Candidates(rec_self, GivenLabel)
          IN  /\ {candidates[k] : k \in 1..Len(candidates)} = CandidateSet
              /\ Len(candidates) = Cardinality(CandidateSet)
              /\ {Items[k].id : k \in 1..Len(Items)} \subseteq CandidateSet
              /\ Cardinality(CandidateSet) <= 4
                    => {Items[k].id : k \in 1..Len(Items)} = CandidateSet
\* an unknown label answered from the neutral entries
C15_UnknownLabelFallsBack ==
    /\ Ranked
    /\ GivenLabel = "grumpy"
    /\ rec_result.primary.id = "neutral_001"
    /\ rec_result.expression_matched = "grumpy"

DefaultRecommendation ==
    Recommendation([id |-> "neutral_001", score |-> 500], <<>>, "neutral", 50)

\* C16: recommend_emoji never propagates an error: on any internal failure
\* (malformed face_data, a candidate id missing from the catalog, an empty
\* catalog) it returns the default recommendation: primary neutral_001,
\* score 0.5, no alternatives, expression_matched "neutral", confidence 0.5.
C16_NeverRaises ==
    rec_result # NoCall =>
        /\ rec_result.kind # "raised"
        /\ TryRaises(rec_self, rec_input) => rec_result = DefaultRecommendation

(***************************************************************************)
(* Compositor (app/services/face_processor.py, process_face)               *)
(*                                                                         *)
(* The model starts after line 61: the image is decoded and at least one   *)
(* face is detected.  Lines 65-77 read the configuration and load the      *)
(* asset; they raise when the name EmojiConfig is not bound (as the file   *)
(* stands) and when the asset file is missing.  A face is given by what    *)
(* lines 82-108 compute for it: the emoji position after the offsets, the  *)
(* emoji size, and whether one of the calls of these lines                 *)
(* (shape_predictor, calculate_emoji_position) raises.  The asset has one  *)
(* colour and, when its file has an alpha channel, one alpha value, so     *)
(* cv2.resize returns the same at any size.                                *)
(* A pixel is one channel value; the code treats the three channels        *)
(* alike.  The pixel values of the model are such that the binary64        *)
(* result of the blend truncates to the same integer as the exact value.   *)
(***************************************************************************)

\* Bounds of the compositor model
MaxWidth == 3
MaxHeight == 2
MaxFaceCount == 3

MaxInt(a, b) == IF a > b THEN a ELSE b
\* Python's a[i:j] on an axis of length n: the first index (from 0) and the
\* index after the last one, negative indices counted from the end
SliceIndex(i, n) == IF i < 0 THEN MaxInt(i + n, 0) ELSE MinInt(i, n)
SliceStart(i, j, n) == SliceIndex(i, n)
SliceStop(i, j, n) == MaxInt(SliceIndex(i, n), SliceIndex(j, n))
SliceLen(i, j, n) == SliceStop(i, j, n) - SliceStart(i, j, n)

\* numpy broadcasting of two axis lengths, and whether it raises ValueError
Compatible(a, b) == a = b \/ a = 1 \/ b = 1
Broadcast(a, b) == IF a = 1 THEN b ELSE a

\* face_processor.py:111-119
OverlayRect(emoji_x, emoji_y, emoji_size, width, height) ==
    LET overlay_x1 == MaxInt(0, emoji_x)
        overlay_y1 == MaxInt(0, emoji_y)
        overlay_x2 == MinInt(width, emoji_x + emoji_size)
        overlay_y2 == MinInt(height, emoji_y + emoji_size)
        emoji_x1 == MaxInt(0, -emoji_x)
        emoji_y1 == MaxInt(0, -emoji_y)
    IN  [kind |-> "rect",
         overlay_x1 |-> overlay_x1, overlay_y1 |-> overlay_y1,
         overlay_x2 |-> overlay_x2, overlay_y2 |-> overlay_y2,
         emoji_x1 |-> emoji_x1, emoji_y1 |-> emoji_y1,
         emoji_x2 |-> emoji_x1 + overlay_x2 - overlay_x1,
         emoji_y2 |-> emoji_y1 + overlay_y2 - overlay_y1]
NoRect == [kind |-> "none"]

\* the lengths of the two slices of lines 122-127 along one axis: of the
\* asset (length emoji_size) and of the image (length n)
SourceLen(e1, e2, emoji_size) == SliceLen(e1, e2, emoji_size)
DestLen(o1, o2, n) == SliceLen(o1, o2, n)
\* lines 125-128 raise ValueError along one axis: the product, the sum or
\* the assignment cannot be broadcast
AxisRaises(s, d) ==
    \/ ~Compatible(s, d)
    \/ ~Compatible(s, Broadcast(s, d))
    \/ ~(Broadcast(s, d) = d \/ Broadcast(s, d) = 1)

\* a blend that leaves the opacity out: alpha = asset_alpha / 255.0
BlendWithoutOpacity(asset, destination, asset_alpha, opacity) ==
    (asset_alpha * asset + (255 - asset_alpha) * destination) \div 255

\* face_processor.py:122-128, one pixel: alpha = asset_alpha / 255.0 * opacity,
\* (alpha * asset + (1 - alpha) * destination).astype(np.uint8); the opacity
\* is the rational opacity.n / opacity.d
Blend(asset, destination, asset_alpha, opacity) ==
    (asset_alpha * opacity.n * asset
        + (255 * opacity.d - asset_alpha * opacity.n) * destination)
            \div (255 * opacity.d)

\* cv2.resize(emoji, (emoji_size, emoji_size)) raises for an empty size
ResizeRaises(emoji_size) == emoji_size <= 0

\* face_processor.py:122: emoji_resized[..., 3] raises IndexError for an asset
\* that cv2.imread has loaded without an alpha channel
AlphaRaises(emoji) == emoji.channels < 4

\* lines 82-128 raise for this face
FaceRaises(face, image) ==
    LET height == Len(image)
        width == Len(image[1])
        rect == OverlayRect(face.emoji_x, face.emoji_y, face.emoji_size, width, height)
    IN  \/ face.fault
        \/ ResizeRaises(face.emoji_size)
        \/ AlphaRaises(cmp_input.emoji)
        \/ AxisRaises(SourceLen(rect.emoji_y1, rect.emoji_y2, face.emoji_size),
                      DestLen(rect.overlay_y1, rect.overlay_y2, height))
        \/ AxisRaises(SourceLen(rect.emoji_x1, rect.emoji_x2, face.emoji_size),
                      DestLen(rect.overlay_x1, rect.overlay_x2, width))

\* lines 125-128, the image after the assignment; image[r][c] is the pixel of
\* row r - 1 and column c - 1
Composite(image, face, emoji, config) ==
    LET height == Len(image)
        width == Len(image[1])
        rect == OverlayRect(face.emoji_x, face.emoji_y, face.emoji_size, width, height)
        rows == (SliceStart(rect.overlay_y1, rect.overlay_y2, height) + 1)
                    ..SliceStop(rect.overlay_y1, rect.overlay_y2, height)
        cols == (SliceStart(rect.overlay_x1, rect.overlay_x2, width) + 1)
                    ..SliceStop(rect.overlay_x1, rect.overlay_x2, width)
    IN  [r \in 1..height |-> [c \in 1..width |->
            IF r \in rows /\ c \in cols
            THEN Blend(emoji.colour, image[r][c], emoji.alpha, config.opacity)
            ELSE image[r][c]]]

\* a loop that ends at the first face that raises
BreakAfterError(k, n) == n
\* face_processor.py:130-132: the handler logs and continues with the face
\* after face k + 1 of n
AfterError(k, n) == k + 1

\* The inputs of the model
DetectedFace(emoji_x, emoji_y, emoji_size, fault) ==
    [emoji_x |-> emoji_x, emoji_y |-> emoji_y, emoji_size |-> emoji_size, fault |-> fault]
\* every placement of one face: on the canvas, partly off it on each side,
\* wholly off it on each side; the empty size; a face whose landmarks raise
SingleFaces ==
    {DetectedFace(x, y, s, FALSE) : x \in {-3, -1, 0, 2, 4}, y \in {-1, 0, 3}, s \in {0, 1, 2}}
        \cup {DetectedFace(0, 0, 2, TRUE)}
\* the faces of the images with several faces
GroupFaces ==
    {DetectedFace(0, 0, 2, FALSE), DetectedFace(-1, 0, 2, FALSE),
     DetectedFace(0, 0, 2, TRUE), DetectedFace(4, 0, 2, FALSE)}
FaceLists ==
    {<<f>> : f \in SingleFaces} \cup (SeqsUpTo(GroupFaces, MaxFaceCount) \ {<<>>})
\* image[r][c], a pattern of two values
Image(width, height) ==
    [r \in 1..height |-> [c \in 1..width |-> IF (r + c) % 2 = 0 THEN 10 ELSE 200]]
Images == {Image(w, h) : w \in 2..MaxWidth, h \in 2..MaxHeight}
\* the asset file: with an alpha channel, without one (alpha: none to read),
\* or missing
Assets ==
    {[exists |-> TRUE, channels |-> 4, colour |-> 90, alpha |-> a] : a \in {0, 128, 255}}
        \cup {[exists |-> TRUE, channels |-> 3, colour |-> 90, alpha |-> 0],
              [exists |-> FALSE, channels |-> 0, colour |-> 0, alpha |-> 0]}
Opacities == {[n |-> 0, d |-> 1], [n |-> 1, d |-> 2], [n |-> 1, d |-> 1]}

CmpInit ==
    /\ cmp_input \in {[image |-> i, faces |-> fs, emoji |-> e, config |-> [opacity |-> o],
                       config_bound |-> b] :
                        i \in Images, fs \in FaceLists, e \in Assets, o \in Opacities,
                        b \in BOOLEAN}
    /\ cmp_result = [pc |-> "start", k |-> 0, image |-> cmp_input.image, log |-> <<>>,
                     rect |-> NoRect, error |-> "none"]

\* face_processor.py:65-77: what the lines before the face loop raise:
\* NameError at line 66 when EmojiConfig is not bound, ValueError at line 72
\* when the asset file does not exist
LoadRaises(input) ==
    IF ~input.config_bound THEN "NameError"
    ELSE IF ~input.emoji.exists THEN "ValueError"
    ELSE "none"

\* face_processor.py:65-77, and for an exception the handler of lines 141-143,
\* which logs 'Error processing image' and re-raises
LoadEmoji ==
    /\ cmp_input # NoCall
    /\ cmp_result.pc = "start"
    /\ cmp_result' =
          IF LoadRaises(cmp_input) = "none"
          THEN [cmp_result EXCEPT !.pc = "loop"]
          ELSE [cmp_result EXCEPT !.pc = "raised", !.error = LoadRaises(cmp_input)]
    /\ UNCHANGED <<cmp_input, jobVars, wsVars, clsVars, recVars, rlVars>>

\* face_processor.py:79-132, one iteration of the face loop
ProcessFace ==
    /\ cmp_input # NoCall
    /\ cmp_result.pc = "loop"
    /\ cmp_result.k < Len(cmp_input.faces)
    /\ LET face == cmp_input.faces[cmp_result.k + 1]
           image == cmp_result.image
           raises == FaceRaises(face, image)
       IN  cmp_result' =
             [pc |-> "loop", error |-> "none",
              k |-> IF raises
                    THEN AfterError(cmp_result.k, Len(cmp_input.faces))
                    ELSE cmp_result.k + 1,
              image |-> IF raises THEN image
                        ELSE Composite(image, face, cmp_input.emoji, cmp_input.config),
              log |-> Append(cmp_result.log, IF raises THEN "error" ELSE "composited"),
              rect |-> IF face.fault \/ ResizeRaises(face.emoji_size) THEN NoRect
                       ELSE OverlayRect(face.emoji_x, face.emoji_y, face.emoji_size,
                                        Len(image[1]), Len(image))]
    /\ UNCHANGED <<cmp_input, jobVars, wsVars, clsVars, recVars, rlVars>>

\* face_processor.py:134-139: cv2.imencode of the image, return of the bytes
EncodeImage ==
    /\ cmp_input # NoCall
    /\ cmp_result.pc = "loop"
    /\ cmp_result.k >= Len(cmp_input.faces)
    /\ cmp_result' = [cmp_result EXCEPT !.pc = "returned"]
    /\ UNCHANGED <<cmp_input, jobVars, wsVars, clsVars, recVars, rlVars>>

CmpNext == LoadEmoji \/ ProcessFace \/ EncodeImage

InitComposite == JobInit /\ WsInit /\ ClsIdle /\ RecIdle /\ CmpInit /\ RlIdle
SpecComposite == InitComposite /\ [][CmpNext]_vars

(***************************************************************************)
(* Claims about the compositor                                             *)
(***************************************************************************)

ImageWidth == Len(cmp_input.image[1])
ImageHeight == Len(cmp_input.image)
\* the face of the last iteration
LastFace == cmp_input.faces[Len(cmp_result.log)]
\* (of an asset with an alpha channel: without one line 122 raises for
\* every placement)
RectComputed ==
    cmp_input # NoCall /\ cmp_result.rect # NoRect /\ ~AlphaRaises(cmp_input.emoji)

\* C18: for every integer emoji position (negative and beyond the edge
\* included), emoji size and image size, 0 <= overlay_x1 <= overlay_x2 <= width
\* and 0 <= overlay_y1 <= overlay_y2 <= height, 0 <= emoji_x1 <= emoji_x2 <=
\* emoji size and 0 <= emoji_y1 <= emoji_y2 <= emoji size, the two rectangles
\* have the same width and height, and the placement is composited without
\* error.
C18_RectanglesWithinBounds ==
    RectComputed =>
        LET q == cmp_result.rect
            size == LastFace.emoji_size
        IN  /\ 0 <= q.overlay_x1 /\ q.overlay_x1 <= q.overlay_x2 /\ q.overlay_x2 <= ImageWidth
            /\ 0 <= q.overlay_y1 /\ q.overlay_y1 <= q.overlay_y2 /\ q.overlay_y2 <= ImageHeight
            /\ 0 <= q.emoji_x1 /\ q.emoji_x1 <= q.emoji_x2 /\ q.emoji_x2 <= size
            /\ 0 <= q.emoji_y1 /\ q.emoji_y1 <= q.emoji_y2 /\ q.emoji_y2 <= size
            /\ q.overlay_x2 - q.overlay_x1 = q.emoji_x2 - q.emoji_x1
            /\ q.overlay_y2 - q.overlay_y1 = q.emoji_y2 - q.emoji_y1
            /\ cmp_result.log[Len(cmp_result.log)] = "composited"

\* the placement reaches into the canvas
OnCanvas(face) ==
    /\ face.emoji_x < ImageWidth /\ face.emoji_x + face.emoji_size > 0
    /\ face.emoji_y < ImageHeight /\ face.emoji_y + face.emoji_size > 0
\* The same for the placements that reach into the canvas
C18_RectanglesOnCanvas ==
    (RectComputed /\ OnCanvas(LastFace)) => C18_RectanglesWithinBounds

\* the image with the faces of a list composited in order, the faces that
\* raise left out
RECURSIVE CompositeAll(_, _)
CompositeAll(image, faces) ==
    IF faces = <<>> THEN image
    ELSE CompositeAll(IF FaceRaises(Head(faces), image) THEN image
                      ELSE Composite(image, Head(faces), cmp_input.emoji, cmp_input.config),
                      Tail(faces))
RECURSIVE WithoutFailing(_, _)
WithoutFailing(image, faces) ==
    IF faces = <<>> THEN <<>>
    ELSE IF FaceRaises(Head(faces), image)
         THEN WithoutFailing(image, Tail(faces))
         ELSE <<Head(faces)>> \o WithoutFailing(
                  Composite(image, Head(faces), cmp_input.emoji, cmp_input.config),
                  Tail(faces))

\* C19: a failure while compositing one face is logged and skipped: every
\* other face, before and after it, is processed exactly once, the image is
\* composited as if the failing face had not been there, and the call
\* returns the encoded image.
C19_FailureIsolated ==
    /\ (cmp_input # NoCall /\ cmp_result.pc = "loop"
            /\ cmp_result.k >= Len(cmp_input.faces)) =>
          /\ cmp_result.k = Len(cmp_input.faces)
          /\ Len(cmp_result.log) = Len(cmp_input.faces)
    /\ (cmp_input # NoCall /\ cmp_result.pc = "returned") =>
          /\ Len(cmp_result.log) = Len(cmp_input.faces)
          /\ cmp_result.image =
                CompositeAll(cmp_input.image,
                             WithoutFailing(cmp_input.image, cmp_input.faces))
    /\ cmp_input # NoCall =>
          /\ Len(cmp_result.log) = cmp_result.k
          /\ \A k \in 1..Len(cmp_result.log) :
                cmp_result.log[k] = "error"
                    <=> FaceRaises(cmp_input.faces[k],
                                   CompositeAll(cmp_input.image,
                                                SubSeq(cmp_input.faces, 1, k - 1)))
\* three faces, the second raised, the first and the third are composited
C19_MiddleFaceFailed ==
    /\ cmp_input # NoCall
    /\ cmp_result.pc = "returned"
    /\ cmp_result.log = <<"composited", "error", "composited">>
    /\ cmp_result.image # cmp_input.image

\* the rows and columns (from 1) of the overlay region of a placement
RegionRows(face) ==
    (MaxInt(0, face.emoji_y) + 1)..MinInt(ImageHeight, face.emoji_y + face.emoji_size)
RegionCols(face) ==
    (MaxInt(0, face.emoji_x) + 1)..MinInt(ImageWidth, face.emoji_x + face.emoji_size)
\* alpha * asset + (1 - alpha) * destination with alpha = asset_alpha / 255 *
\* opacity, cut to the integer below
SpecBlend(destination) ==
    LET n == cmp_input.emoji.alpha * cmp_input.config.opacity.n
        d == 255 * cmp_input.config.opacity.d
    IN  (n * cmp_input.emoji.colour + (d - n) * destination) \div d

\* C20: each pixel of the overlay region becomes alpha * asset + (1 - alpha) *
\* destination with alpha = asset_alpha / 255 * opacity; with opacity 0 it
\* keeps its value, with opacity 1 and asset alpha 255 it becomes the asset
\* pixel; the pixels outside the overlay region do not change.
C20_BlendInRegionOnly ==
    [][(cmp_input # NoCall /\ Len(cmp_result'.log) = Len(cmp_result.log) + 1) =>
        LET face == cmp_input.faces[Len(cmp_result'.log)]
            before == cmp_result.image
            after == cmp_result'.image
        IN  \A r \in 1..ImageHeight, c \in 1..ImageWidth :
              IF cmp_result'.log[Len(cmp_result'.log)] = "composited"
                 /\ r \in RegionRows(face) /\ c \in RegionCols(face)
              THEN /\ after[r][c] = SpecBlend(before[r][c])
                   /\ cmp_input.config.opacity.n = 0 => after[r][c] = before[r][c]
                   /\ (cmp_input.config.opacity = [n |-> 1, d |-> 1]
                          /\ cmp_input.emoji.alpha = 255)
                        => after[r][c] = cmp_input.emoji.colour
              ELSE after[r][c] = before[r][c]]_vars
\* a half-transparent asset at half opacity has changed a pixel of the
\* region and left a pixel outside
C20_HalfBlended ==
    /\ cmp_input # NoCall
    /\ cmp_result.log = <<"composited">>
    /\ cmp_input.emoji.alpha = 128
    /\ cmp_input.config.opacity = [n |-> 1, d |-> 2]
    /\ \E r \in 1..ImageHeight, c \in 1..ImageWidth :
          cmp_result.image[r][c] # cmp_input.image[r][c]
    /\ \E r \in 1..ImageHeight, c \in 1..ImageWidth :
          /\ ~(r \in RegionRows(LastFace) /\ c \in RegionCols(LastFace))
          /\ cmp_result.image[r][c] = cmp_input.image[r][c]

\* the expression tag of an entry of the catalog
TagOf(id) == DbGet(rec_self.emoji_database, id).expression

\* C30: for every input expression label, known or unknown to the catalog,
\* the expression tag of the primary emoji equals the returned
\* expression_matched, and the returned confidence equals the input
\* expression confidence.
C30_TagEqualsExpressionMatched ==
    (Ranked /\ GetExpression(rec_input).confidence.kind = "num") =>
        /\ TagOf(rec_result.primary.id) = rec_result.expression_matched
        /\ rec_result.confidence = GetExpression(rec_input).confidence.v
\* The same for the labels that tag an entry of the catalog
C30_TagOfKnownLabel ==
    (Ranked /\ GetExpression(rec_input).confidence.kind = "num"
        /\ Tagged(GivenLabel) # {}) =>
        /\ TagOf(rec_result.primary.id) = rec_result.expression_matched
        /\ rec_result.confidence = GetExpression(rec_input).confidence.v

(***************************************************************************)
(* Further claims about the frame stream coordinator                       *)
(***************************************************************************)

\* the unit u runs lines 80-83 in this step
RunsStateUpdate(u) == units[u].pc = "send" /\ ~units[u].counted /\ units'[u].counted

\* C21: the session fields are 'most recent write wins': a unit that
\* completes writes last_frame_time, last_expression and frame_counter of its
\* session together, on top of whatever the units that completed before it
\* wrote, and no other step changes the fields of a session, so that after
\* all units have completed the fields hold the values of the unit that
\* completed last.
C21_MostRecentWriteWins ==
    [][/\ \A u \in Units :
             RunsStateUpdate(u) =>
                 LET ds == units[u].ds
                 IN  /\ device_states'[units[u].dev] = ds
                     /\ stateDict'[ds].last_frame_time = units[u].t0
                     /\ stateDict'[ds].last_expression = units[u].expr
                     /\ stateDict'[ds].frame_counter = stateDict[ds].frame_counter + 1
                     /\ stateDict'[ds].confidence_threshold = stateDict[ds].confidence_threshold
       /\ \A d \in Devices :
             (/\ device_states[d] # 0 /\ device_states'[d] = device_states[d]
              /\ ~\E u \in Units : RunsStateUpdate(u) /\ units[u].ds = device_states[d])
             => stateDict'[device_states[d]] = stateDict[device_states[d]]]_vars

\* Two units of the only session ever opened were accepted at 40 ms and at
\* 50 ms and have both completed; the one accepted first completed last, and
\* the session holds its time.
C21_EarlierUnitCompletedLast ==
    /\ nextObj = 2 /\ device_states[FirstDevice] = 1 /\ now = 50
    /\ \A u \in Units : units[u].counted /\ units[u].pc = "done"
    /\ stateDict[1].frame_counter = 2
    /\ stateDict[1].last_frame_time = 40
    /\ stateDict[1].last_expression \in Expressions

\* the step is one of the frame unit u alone: no other unit moves and no
\* endpoint handler does
StepOf(u) ==
    /\ units'[u] # units[u]
    /\ \A v \in Units \ {u} : units'[v] = units[v]
    /\ hand' = hand /\ sock' = sock

\* the unit u is one whose pipeline call (line 62 or 65) has raised: it has
\* no expression and is in the broadcast of its error
PipelineFailed(rec) == rec.accepted /\ rec.expr = "None" /\ rec.ds # 0

\* C22: when the pipeline call of an accepted frame fails inside
\* process_frame, the error event is sent to every websocket that is a
\* subscriber of the device from the start to the end of its broadcast.
C22_ErrorToEverySubscriber ==
    [][\A u \in Units :
          (/\ units[u].pc = "send" /\ units[u].phase = "error"
           /\ PipelineFailed(units[u])
           /\ units'[u].pc # "send")
          => (connSet[units[u].it.obj] \cap units[u].it.orig) \subseteq units[u].it.seen]_vars

\* C22, the rest: no step of a unit whose pipeline call failed changes the
\* session fields, the sessions or the subscriber sets, the unit sends error
\* events only, and the other units are left as they are.
C22_FailedUnitLeavesSession ==
    [][\A u \in Units :
          (StepOf(u) /\ PipelineFailed(units'[u]) /\ units'[u].pc = "send")
          \/ (StepOf(u) /\ units[u].pc = "send" /\ PipelineFailed(units[u]))
          => /\ device_states' = device_states
             /\ active_connections' = active_connections
             /\ connSet' = connSet
             /\ \A d \in Devices :
                   device_states[d] # 0 => stateDict'[device_states[d]] = stateDict[device_states[d]]
             /\ ~units'[u].counted
             /\ sent'.kind \in {"none", "error"}
             /\ units'[u].pc = "send" => units'[u].phase = "error"]_vars

\* C23: no call of disconnect raises: every websocket whose endpoint has
\* called disconnect has seen the call return.
C23_DisconnectNeverRaises ==
    \A w \in Sockets : sock[w].st = "closed" => sock[w].err = "none"

\* C23, the rest: whatever the call raises, the disconnect of the last
\* subscriber leaves no entry of the device in active_connections and
\* device_states (last_frame_times never has one).
C23_LastDisconnectLeavesNoEntry ==
    [][\A w \in Sockets :
          (sock[w].st = "open" /\ sock'[w].st = "closed"
           /\ DiscDestroys(w, sock[w].dev))
          => /\ active_connections'[sock[w].dev] = 0
             /\ device_states'[sock[w].dev] = 0
             /\ sock[w].dev \notin last_frame_times']_vars

\* C24: when a send of a broadcast has returned and the for loop asks for the
\* next subscriber, the set has the size it had when the broadcast began (a
\* set that has changed size raises RuntimeError out of the broadcast).
C24_BroadcastSeesNoChangedSet ==
    [][/\ \A u \in Units :
             (units[u].pc = "send" /\ sent'.from = u) => ~IterSizeChanged(units[u].it)
       /\ \A w \in Sockets :
             (hand[w].pc = "send" /\ sent'.from = w) => ~IterSizeChanged(hand[w].it)]_vars

\* C25: connect for a device that already has a session adds the websocket
\* to the subscriber set of the device and changes nothing else: the session
\* fields of the device and the sessions of the other devices stay as they
\* are.
C25_ConnectToLiveSessionAddsOnly ==
    [][\A w \in Sockets :
          (sock[w].st = "fresh" /\ sock'[w].st = "open"
           /\ active_connections[sock'[w].dev] # 0)
          => /\ active_connections' = active_connections
             /\ device_states' = device_states
             /\ stateDict' = stateDict
             /\ last_frame_times' = last_frame_times
             /\ connSet' = [connSet EXCEPT ![active_connections[sock'[w].dev]] = @ \cup {w}]]_vars

\* A session that has counted a frame at 40 ms has two subscribers: the
\* second connect has left the fields of the first session as they were.
C25_SecondSubscriberOfUsedSession ==
    /\ nextObj = 2 /\ device_states[FirstDevice] = 1
    /\ connSet[1] = Sockets
    /\ stateDict[1] = [last_expression |-> "happy", confidence_threshold |-> "0.8",
                       frame_counter |-> 1, last_frame_time |-> 40]

\* the number of units that run lines 80-83 on the dict object i in this step
UpdatesOf(i) == Cardinality({u \in Units : RunsStateUpdate(u) /\ units[u].ds = i})

\* C29: the frame_counter of a session starts at 0 and, as long as the
\* session lives, changes only by the state update of a frame whose result
\* has been published, which adds exactly 1; dropped and failed frames leave
\* it as it is, so it never decreases and counts the frames processed.
C29_FrameCounterCountsProcessed ==
    [][\A d \in Devices :
          /\ (device_states'[d] # 0 /\ device_states'[d] # device_states[d])
                => stateDict'[device_states'[d]].frame_counter = 0
          /\ (device_states[d] # 0 /\ device_states'[d] = device_states[d])
                => stateDict'[device_states[d]].frame_counter =
                      stateDict[device_states[d]].frame_counter + UpdatesOf(device_states[d])]_vars

\* Both units of the only session were accepted and have ended; one has run
\* its state update and the other (failed in the pipeline or in its
\* broadcast) has not: the counter is 1.
C29_FailedFrameNotCounted ==
    /\ nextObj = 2 /\ device_states[FirstDevice] = 1
    /\ \A u \in Units : units[u].accepted /\ units[u].pc \in {"done", "raised"}
    /\ \E u \in Units : units[u].counted
    /\ \E u \in Units : ~units[u].counted
    /\ stateDict[1].frame_counter = 1

(***************************************************************************)
(* Further claims about the batch job tracker                              *)
(***************************************************************************)

\* create_job stores the record of j in this step
Created(j) == issued[j].kind = "none" /\ issued'[j].kind = "issued"

\* no call of update_job_status for j is between its GET and its SETEX
NoUpdateInFlight(j) ==
    wupd[j] = NoJob /\ (xupd = NoUpdate \/ xupd.job_id # j)

\* C26: update_job_status for a job id that was never created or whose
\* record has expired writes nothing: a record that is not found stays not
\* found in every step but that of create_job, also in the steps of a worker
\* that finishes after the time to live, and a poll keeps returning not found.
C26_UpdateOfMissingJobWritesNothing ==
    [][\A j \in JobIds :
          (~JobLive(j) /\ ~Created(j)) =>
              /\ ~JobLive(j)'
              /\ store'[j] = store[j]
              /\ jhist'[j] = jhist[j]
              /\ polled'[j] \in {polled[j], "not_found"}]_vars

\* C26, for the calls that begin when the record is not found: while no call
\* is between its GET and its SETEX, a record that is not found stays not
\* found in every step but that of create_job.
C26_CallOnMissingJobWritesNothing ==
    [][\A j \in JobIds :
          (~JobLive(j) /\ ~Created(j) /\ NoUpdateInFlight(j)) =>
              /\ ~JobLive(j)'
              /\ store'[j] = store[j]
              /\ jhist'[j] = jhist[j]]_vars

\* A worker that read its job and marked it has made its last update after
\* the record expired: the record was not put back, the last status ever
\* written is processing, and a poll has returned not found.
C26_WorkerFinishedAfterExpiry ==
    \E j \in JobIds :
        /\ wpc[j] = "done" /\ wjob[j].kind = "job" /\ ~wfault[j]
        /\ jhist[j] = <<"pending", "processing">>
        /\ ~JobLive(j) /\ store[j] = NoKey
        /\ polled[j] = "not_found"

(***************************************************************************)
(* Rate limiters (app/core/rate_limiter.py, app/services/auth.py)          *)
(*                                                                         *)
(* One key rate_limit:<id> of the redis store and the worker processes     *)
(* that serve requests of its client.  The key counts the requests of a    *)
(* client IP, through RateLimiter.is_allowed of the middleware of          *)
(* main.py:46-53, or those of a device, through check_rate_limit of        *)
(* auth.py.  Each redis command is one step: the commands of the calls of  *)
(* different processes interleave, and the clock of the store may advance  *)
(* between two commands of one call.                                       *)
(***************************************************************************)

\* rate_limiter.py:9  self.rate_limit = 100
rate_limit == 100
\* rate_limiter.py:10  self.window = 60 (seconds); auth.py:115 window: int = 60
window == 60
\* auth.py:115  limit: int = 100
limit == 100

\* Bounds of the rate limiter model
MaxRlClock == 120
\* seconds between two commands
RlTimeSteps == {30}
RlKeyKinds == {"client_ip", "device_id"}

\* redis SET key value EX seconds
CounterSetEx(clock, value, seconds) ==
    [kind |-> "key", val |-> value, volatile |-> TRUE, expires |-> clock + seconds]

\* redis INCR key: adds one and leaves the expiry as it is; a key that does
\* not exist is created with the value 1 and no expiry
CounterIncr(key) ==
    IF key.kind = "key" THEN [key EXCEPT !.val = @ + 1]
    ELSE [kind |-> "key", val |-> 1, volatile |-> FALSE, expires |-> 0]

\* redis EXPIRE key seconds: no effect on a key that does not exist
CounterExpire(key, clock, seconds) ==
    IF key.kind = "key" THEN [key EXCEPT !.volatile = TRUE, !.expires = clock + seconds]
    ELSE key

\* redis drops a key whose time to live has run out
CounterDrop(key, clock) ==
    IF key.kind = "key" /\ key.volatile /\ clock >= key.expires THEN NoCounter ELSE key

\* bookkeeping of the calls that returned True: a window of `window` seconds
\* opens with the first of them and with the first after the window before
\* has ended
ReturnsTrue ==
    /\ rl_last' = "allowed"
    /\ IF rl_allowed = 0
       THEN rl_allowed' = 1 /\ rl_from' = rl_clock
       ELSE rl_allowed' = rl_allowed + 1 /\ UNCHANGED rl_from

ReturnsFalse ==
    /\ rl_last' = "refused"
    /\ UNCHANGED <<rl_allowed, rl_from>>

RlInit ==
    /\ rl_clock = 0
    /\ rl_kind \in RlKeyKinds
    /\ rl_key = NoCounter
    /\ rl_call = [p \in RlWorkers |-> "idle"]
    /\ rl_allowed = 0
    /\ rl_from = 0
    /\ rl_last = "none"

\* rate_limiter.py:18-28: count = self.redis.get(key); the call goes on to the
\* set of line 22 or to the incr of line 31, or returns False at line 28
IsAllowedGet(p) ==
    /\ UNCHANGED <<jobVars, wsVars, fnVars>>
    /\ rl_kind = "client_ip" /\ rl_call[p] = "idle"
    /\ IF rl_key.kind = "none"
       THEN /\ rl_call' = [rl_call EXCEPT ![p] = "set"]
            /\ UNCHANGED <<rl_allowed, rl_from, rl_last>>
       ELSE IF rl_key.val >= rate_limit
       THEN /\ ReturnsFalse
            /\ UNCHANGED rl_call
       ELSE /\ rl_call' = [rl_call EXCEPT ![p] = "incr"]
            /\ UNCHANGED <<rl_allowed, rl_from, rl_last>>
    /\ UNCHANGED <<rl_clock, rl_kind, rl_key>>

\* rate_limiter.py:22-23: self.redis.set(key, 1, ex=self.window); return True
IsAllowedSet(p) ==
    /\ UNCHANGED <<jobVars, wsVars, fnVars>>
    /\ rl_call[p] = "set"
    /\ rl_key' = CounterSetEx(rl_clock, 1, window)
    /\ rl_call' = [rl_call EXCEPT ![p] = "idle"]
    /\ ReturnsTrue
    /\ UNCHANGED <<rl_clock, rl_kind>>

\* rate_limiter.py:31-32: self.redis.incr(key); return True
IsAllowedIncr(p) ==
    /\ UNCHANGED <<jobVars, wsVars, fnVars>>
    /\ rl_call[p] = "incr"
    /\ rl_key' = CounterIncr(rl_key)
    /\ rl_call' = [rl_call EXCEPT ![p] = "idle"]
    /\ ReturnsTrue
    /\ UNCHANGED <<rl_clock, rl_kind>>

\* auth.py:117-121: current_count = redis_client.get(key); the call returns
\* False or goes on to the incr of line 123
CheckRateLimitGet(p) ==
    /\ UNCHANGED <<jobVars, wsVars, fnVars>>
    /\ rl_kind = "device_id" /\ rl_call[p] = "idle"
    /\ IF rl_key.kind = "key" /\ rl_key.val >= limit
       THEN /\ ReturnsFalse
            /\ UNCHANGED rl_call
       ELSE /\ rl_call' = [rl_call EXCEPT ![p] = "check_incr"]
            /\ UNCHANGED <<rl_allowed, rl_from, rl_last>>
    /\ UNCHANGED <<rl_clock, rl_kind, rl_key>>

\* auth.py:123: redis_client.incr(key)
CheckRateLimitIncr(p) ==
    /\ UNCHANGED <<jobVars, wsVars, fnVars>>
    /\ rl_call[p] = "check_incr"
    /\ rl_key' = CounterIncr(rl_key)
    /\ rl_call' = [rl_call EXCEPT ![p] = "check_expire"]
    /\ UNCHANGED <<rl_clock, rl_kind, rl_allowed, rl_from, rl_last>>

\* auth.py:124-125: redis_client.expire(key, window); return True
CheckRateLimitExpire(p) ==
    /\ UNCHANGED <<jobVars, wsVars, fnVars>>
    /\ rl_call[p] = "check_expire"
    /\ rl_key' = CounterExpire(rl_key, rl_clock, window)
    /\ rl_call' = [rl_call EXCEPT ![p] = "idle"]
    /\ ReturnsTrue
    /\ UNCHANGED <<rl_clock, rl_kind>>

\* time passes; redis drops the key when its time to live has run out, and
\* the window of the bookkeeping ends `window` seconds after it began
RlTick(step) ==
    /\ UNCHANGED <<jobVars, wsVars, fnVars>>
    /\ rl_clock + step <= MaxRlClock
    /\ rl_clock' = rl_clock + step
    /\ rl_key' = CounterDrop(rl_key, rl_clock')
    /\ IF rl_allowed > 0 /\ rl_clock' >= rl_from + window
       THEN rl_allowed' = 0 /\ rl_from' = 0
       ELSE UNCHANGED <<rl_allowed, rl_from>>
    /\ UNCHANGED <<rl_kind, rl_call, rl_last>>

RlNext ==
    \/ \E p \in RlWorkers : IsAllowedGet(p)
    \/ \E p \in RlWorkers : IsAllowedSet(p)
    \/ \E p \in RlWorkers : IsAllowedIncr(p)
    \/ \E p \in RlWorkers : CheckRateLimitGet(p)
    \/ \E p \in RlWorkers : CheckRateLimitIncr(p)
    \/ \E p \in RlWorkers : CheckRateLimitExpire(p)
    \/ \E step \in RlTimeSteps : RlTick(step)

InitRateLimit == JobInit /\ WsInit /\ FnIdle /\ RlInit
SpecRateLimit == InitRateLimit /\ [][RlNext]_vars

(***************************************************************************)
(* Claims about the rate limiters                                          *)
(***************************************************************************)

\* C27: for a client IP is_allowed returns True for at most rate_limit (100)
\* requests within one window of 60 seconds, also when worker processes
\* interleave the get and the incr of their calls.
C27_AtMostRateLimitAllowed ==
    rl_kind = "client_ip" => rl_allowed <= rate_limit

\* C27, the rest: once the counter has reached the limit and no call is
\* between its get and its write, every request is refused and leaves the
\* counter as it is until the clock moves.
C27_RefusedAtLimit ==
    [][(/\ rl_kind = "client_ip"
        /\ rl_key.kind = "key" /\ rl_key.val >= rate_limit
        /\ \A p \in RlWorkers : rl_call[p] = "idle"
        /\ rl_clock' = rl_clock)
       => /\ rl_key' = rl_key
          /\ rl_allowed' = rl_allowed
          /\ rl_last' = "refused"]_vars

\* C28: whenever no call is between two of its commands, a rate-limit counter
\* that exists carries an expiry (so that it is gone, and its client allowed
\* again, one window after the last allowed request at the latest).
C28_EveryCounterHasExpiry ==
    (rl_key.kind = "key" /\ \A p \in RlWorkers : rl_call[p] = "idle") => rl_key.volatile

\* C28, for the counter of a device: check_rate_limit leaves an expiry on the
\* key with every call that returns True.
C28_DeviceCounterHasExpiry ==
    (rl_kind = "device_id" /\ rl_key.kind = "key"
     /\ \A p \in RlWorkers : rl_call[p] = "idle") => rl_key.volatile

====
